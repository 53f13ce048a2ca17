SPECIFICATION Spec
CONSTANTS
 Callers = {a, b}
 Loops = {1, 2, 3, 4}
 None = None
 Tools = {t}
 Kinds = {"enable", "disable", "toggle", "upload"}
 States = {"enabled", "hidden", "disabled", "on", "off"}
SYMMETRY Symmetry
INVARIANTS TypeOK  WorkerFollowsPlugin
