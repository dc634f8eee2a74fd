SPECIFICATION Spec
CONSTANTS
  Room = {1, 2}
  User = {u}
  Nick = {n1, n2}
  NoNick = NoNick
  Name = {word, longword}
  LongName = {longword}
  Value = {v, w, longvalue}
  LongValue = {longvalue}
  Field = {f, g, unknown}
  Available = {f, g}
  Default = v
  Role = {50, 100}
  AutoCreate = {TRUE, FALSE}
  MaxCommands = 3
  MaxDeaths = 1
SYMMETRY Symmetry
INVARIANTS AnswerIsTrue SettingsAreApplied
PROPERTIES WritesStayInPlace
