CONSTANTS
  Users = {admin, dev}
  Legacy = {admin}
  Workspaces = {default, w1}
  Default = default
  NoWorkspace = nowhere
  Tokens = {t1, t2}
  NoUser = nobody
  Requests = {r1, r2}
  Hooks = {h1}
  Secrets = {s1, s2}
  EnvSecret = env
  NoSecret = nosecret
  Keys = {k1, k2}
  MaxFaults = 1
SPECIFICATION AccessSpec
INVARIANTS StoredInOwnWorkspace
SYMMETRY Symmetry
\* Everything is asked and answered in the end.
CHECK_DEADLOCK FALSE
