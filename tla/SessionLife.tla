------------------------------ MODULE SessionLife ------------------------------
(***************************************************************************)
(* What the portal promises about a session, whatever the tables, the      *)
(* throttled refresh, the nightly cleanup and the requests in flight do:   *)
(* it is answered only while it lives, it may fall asleep for want of use  *)
(* and wake only through a request that was answered before it did, and    *)
(* once it is over it stays over.                                          *)
(***************************************************************************)
CONSTANTS
  Tokens,    \* the sessions there can be
  Times,     \* the times at which one can be used
  Never      \* it was not used yet

VARIABLES
  life,      \* token |-> "none", "live", "asleep" or "over"
  late,      \* the tokens with a request that is answered and not over
  used       \* token |-> when it was last answered

lifeVars == <<life, late, used>>

LifeInit ==
  /\ life = [k \in Tokens |-> "none"]
  /\ late = {}
  /\ used = [k \in Tokens |-> Never]

Lives(k) ==
  \/ life'[k] = life[k]
  \/ life[k] = "none" /\ life'[k] = "live"
  \/ life[k] = "live" /\ life'[k] \in {"asleep", "over"}
  \/ life[k] = "asleep" /\ life'[k] = "over"
  \/ life[k] = "asleep" /\ life'[k] = "live" /\ k \in late

Answered(k) == life[k] = "live" /\ life'[k] = "live"

LifeNext ==
  /\ life' \in [Tokens -> {"none", "live", "asleep", "over"}]
  /\ late' \subseteq Tokens
  /\ used' \in [Tokens -> Times \cup {Never}]
  /\ \A k \in Tokens : /\ Lives(k)
                       /\ used'[k] # used[k] => Answered(k)
                       /\ k \in late' \ late => Answered(k)

LifeSpec == LifeInit /\ [][LifeNext]_lifeVars
=============================================================================
