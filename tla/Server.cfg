SPECIFICATION Spec
CONSTANTS
  s1 = s1
  s2 = s2
  h1 = h1
  f1 = f1
  App = App
  Http = Http
  Socket = {s1, s2}
  BestTask = {h1}
  FinalTask = {f1}
  WithLogs = {h1}
  MaxListeners = 2
  BatchSize = 2
  Messages <- MCMessages
  Uses = {{"beats"}, {"news"}}
INVARIANTS HeadsReachListeners NoStrayListener IdentifiersAreGiven
PROPERTIES DeadSocketsReaped
CHECK_DEADLOCK FALSE
