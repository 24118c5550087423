------------------------------ MODULE Sessions ------------------------------
(***************************************************************************)
(* What the code keeps of a login's promise (docs/03-authentication.md):   *)
(* one session that lives from token to token.  A rotation first takes the *)
(* old token away and then gives the new one; in between the session is    *)
(* turning.  A session that is over stays over.                            *)
(*                                                                         *)
(* Two things it does not keep.  A session that two refreshes turned       *)
(* together is forked, and nothing is promised of it.  A session that is   *)
(* turning cannot be ended from outside: a breach leaves it turning, a     *)
(* logout finds nothing to delete, and it may be renewed.                  *)
(***************************************************************************)
CONSTANT Logins

VARIABLES
  status,  \* "none", "live", "turning", "over" or "forked"
  wiped    \* logins a breach was to end and that were not renewed since

vars == <<status, wiped>>

Init ==
  /\ status = [f \in Logins |-> "none"]
  /\ wiped = {}

Move(f, from, to) == status[f] \in from /\ status' = [status EXCEPT ![f] = to]

Start(f) == Move(f, {"none"}, "live") /\ UNCHANGED wiped

(* The token is revoked. *)
Turn(f) == Move(f, {"live"}, "turning") /\ UNCHANGED wiped

(* Its successor is inserted, whatever happened in between. *)
Renew(f) == Move(f, {"turning"}, "live") /\ wiped' = wiped \ {f}

(* A logout of a session's first token, an expiry, a crash or a refusal between the two
   commits; one step can end the sessions of many.  A logout that names a token already
   rotated, or comes while the session is turning, ends none. *)
End(fs) ==
  /\ \A f \in fs : status[f] \in {"live", "turning"}
  /\ status' = [f \in Logins |-> IF f \in fs THEN "over" ELSE status[f]]
  /\ UNCHANGED wiped

(* Reuse of a rotated token ends every session of its user that is not turning. *)
Breach(fs) ==
  /\ \A f \in fs : status[f] \in {"live", "turning", "over"}
  /\ wiped' = wiped \cup fs
  /\ status' = [f \in Logins |-> IF f \in fs /\ status[f] = "live" THEN "over" ELSE status[f]]

(* A second refresh revokes the row again; a breach leaves no row to revoke. *)
Fork(f) ==
  /\ f \notin wiped
  /\ Move(f, {"live", "turning", "over"}, "forked")
  /\ UNCHANGED wiped

Next ==
  \/ \E f \in Logins : Start(f) \/ Turn(f) \/ Renew(f) \/ Fork(f)
  \/ \E fs \in SUBSET Logins : End(fs) \/ Breach(fs)

Spec == Init /\ [][Next]_vars
-----------------------------------------------------------------------------
(* A breach leaves its user no session that lives. *)
WipedIsNotLive == \A f \in wiped : status[f] \in {"turning", "over"}

(* One step takes no session up again that is over, forks none that a breach was to end,
   and brings none of those back to life but one that was turning. *)
TakesNothingUp ==
  \A f \in Logins :
    /\ status[f] = "over" => status'[f] \in {"over", "forked"}
    /\ status[f] = "over" /\ f \in wiped => status'[f] = "over" /\ f \in wiped'
    /\ f \in wiped \ wiped' => status[f] = "turning" /\ status'[f] = "live"

(* What is over stays over, and a breach spares only the sessions it finds turning. *)
OverIsOver == []WipedIsNotLive /\ [][TakesNothingUp]_vars
=============================================================================
