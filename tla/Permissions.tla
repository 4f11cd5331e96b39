---------------------------- MODULE Permissions ----------------------------
(***************************************************************************)
(* Who may do what with an object that has an owner, an owning group and a *)
(* mode: core/permissions.py. A mode is the function from the three        *)
(* classes of users to the bits they have.                                 *)
(***************************************************************************)

Modes == [{"owner", "group", "other"} -> SUBSET {"r", "w", "x"}]

\* DEFAULT_AGENT_MODE, 0o600
PrivateMode ==
  [class \in {"owner", "group", "other"} |-> IF class = "owner" THEN {"r", "w"} ELSE {}]

\* The mode 0 of rows written before modes existed.
NoMode == [class \in {"owner", "group", "other"} |-> {}]

OwnedBy(object, user) == object.owner = user

InGroup(object, groups) == object.group \in groups

\* Whatever its mode says, a group has no more than the right to read.
Bits(object, user, groups) ==
  IF OwnedBy(object, user) THEN object.mode["owner"]
  ELSE IF InGroup(object, groups) THEN object.mode["group"] \cap {"r"}
  ELSE object.mode["other"]

CanWrite(object, user, groups) == "w" \in Bits(object, user, groups)

=============================================================================
