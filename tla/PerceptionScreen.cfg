\* Two observations and a change of a switch, or one and two changes; a
\* window that may show a secret, and one that the guard stops.
SPECIFICATION PerceptionSpec
CONSTANTS
  Observation = {o1, o2}
  Writer = {w1, w2}
  None = None
  Window = {n1, n2}
  Blocked = {n2}
  Content = {plain, secret}
  Secret = {secret}
  Parties = {{o1, o2, w1}, {o1, w1, w2}}
PROPERTIES
  RevocationIsBarrier SecretStaysLocal PerceptionEnds
CHECK_DEADLOCK FALSE
