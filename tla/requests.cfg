SPECIFICATION Spec
CONSTANTS
  IPv4 = {public4, private4}
  IPv6 = {nat64}
  DeniedIPv4 = {private4}
  DeniedIPv6 = {}
  EmbeddedIPv4 <- MCEmbedded
  BlockedNames = {intranet}
  AllowedPorts = {80, 443}
  AllowPrivate = FALSE
  MaxBytes = 1
  Users = {u1}
  Monitors = {m1, m2, m3}
  Channels = {k1}
  UserOf <- MCUserOf
  Quota = 1
  Urls <- MCUrls
  Expected = {200}
  Statuses = {200, 302}
  Names = {site, intranet}
  Answers <- MCAnswers
  Sizes = {0, 1, 2}
  Requests = {h1, h2}
  Probes = {p1}
  u1 = u1
  k1 = k1
  site = site
  intranet = intranet
  public4 = public4
  private4 = private4
  nat64 = nat64
SYMMETRY Symmetry
CONSTRAINT ProbesAlone
INVARIANTS TypeOK RowsStayValid QuotaOvershootBounded DeniedOnlyIfUnseen MeasurementsTruthful
CHECK_DEADLOCK FALSE
