\* One figure with two collectors; or one document with two collectors; or two
\* meetings with two ingests; or one day of intervention and two monthly pages;
\* or two labels and two review servers.
SPECIFICATION PartsSpec
CONSTANTS
  c1 = c1  c2 = c2
  Collectors = {c1, c2}
  Values = {"a", "b"}
  WindowSize = 2
  MaxTime = 4
INVARIANTS
  FactsTrue
CHECK_DEADLOCK FALSE
