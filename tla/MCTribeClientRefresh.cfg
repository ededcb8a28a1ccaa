\* One call after the other, no bound but time.
CONSTANTS
  c1 = c1
  c2 = c2
  Calls = {c1}
  AccessLife = 2
  RefreshLife = 3
  KeycloakRefresh = TRUE
  Margin = 1
  Timeout = 1
  MaxRetries = 1
SPECIFICATION Spec
PROPERTY RefreshKeepsClaims
