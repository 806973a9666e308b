-------------------------- MODULE AccountLifecycle --------------------------
(***************************************************************************)
(* What the user management promises about one account, whatever the       *)
(* handlers and admin.py do: an address is confirmed only from pending, it *)
(* never changes while it counts as confirmed, and a password reset is     *)
(* opened only for a confirmed account and is closed at most once.         *)
(***************************************************************************)
CONSTANTS Keys, Mails, Null

VARIABLES conf,   \* "none", "pending" or "confirmed"
          addr,   \* the mail address, or Null
          reset   \* "none", "open" or "closed"

lifeVars == <<conf, addr, reset>>

LifeInit ==
  /\ conf \in [Keys -> {"none", "pending", "confirmed"}]
  /\ addr \in [Keys -> Mails \cup {Null}]
  /\ reset = [k \in Keys |-> "none"]

ChangeAddress(k) ==
  /\ conf[k] # "confirmed"
  /\ \E m \in Mails : addr' = [addr EXCEPT ![k] = m]
  /\ UNCHANGED <<conf, reset>>

Withdraw(k) ==
  /\ conf' = [conf EXCEPT ![k] = "pending"]
  /\ UNCHANGED <<addr, reset>>

Confirm(k) ==
  /\ conf[k] = "pending"
  /\ conf' = [conf EXCEPT ![k] = "confirmed"]
  /\ UNCHANGED <<addr, reset>>

OpenReset(k) ==
  /\ conf[k] = "confirmed"
  /\ reset' = [reset EXCEPT ![k] = "open"]
  /\ UNCHANGED <<conf, addr>>

CloseReset(k) ==
  /\ reset[k] = "open"
  /\ reset' = [reset EXCEPT ![k] = "closed"]
  /\ UNCHANGED <<conf, addr>>

Remove(k) ==
  /\ conf' = [conf EXCEPT ![k] = "none"]
  /\ addr' = [addr EXCEPT ![k] = Null]
  /\ reset' = [reset EXCEPT ![k] = "none"]

LifeNext == \E k \in Keys :
  \/ ChangeAddress(k) \/ Withdraw(k) \/ Confirm(k)
  \/ OpenReset(k) \/ CloseReset(k) \/ Remove(k)

LifeSpec == LifeInit /\ [][LifeNext]_lifeVars
=============================================================================
