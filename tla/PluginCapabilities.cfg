SPECIFICATION Spec
CONSTANTS
 Callers = {a}
 Loops = {1, 2, 3, 4}
 None = None
 Tools = {t}
 Kinds = {"enable", "disable", "toggle"}
 States = {"enabled", "disabled"}
INVARIANTS DisabledNotListed
