------------------------------- MODULE Members -------------------------------
(***************************************************************************)
(* The members of the platform: their accounts (Account) and what they are *)
(* told (Notification).  Both share the users, the tokens of the clients   *)
(* and one process, which restarts for both at once.                       *)
(***************************************************************************)
EXTENDS Integers, FiniteSets

CONSTANTS Clients, Names, Emails, Passwords, NoId, IsDev, Pushers,
          MaxUsers, MaxNotes, MaxFaults

ASSUME MembersAssumption == /\ IsFiniteSet(Clients)
                            /\ IsDev \in BOOLEAN
                            /\ MaxUsers \in Nat \ {0}
                            /\ MaxNotes \in Nat
                            /\ MaxFaults \in Nat
                            /\ NoId \notin 1..MaxUsers \cup 1..MaxNotes

VARIABLES users, funded, signups, session, wallets,
          notes, pushes, feeds, dropped,
          faults

accountVars == <<funded, signups, wallets>>
noteVars == <<notes, pushes, feeds, dropped>>
vars == <<users, session, faults, accountVars, noteVars>>

A == INSTANCE Account
N == INSTANCE Notification

TypeOK == A!TypeOK /\ N!TypeOK

Init == A!Init /\ N!Init

\* A restart takes the sign-ups, the pushes and the connections with it.
Restart == A!Fault /\ A!Restart /\ N!Restart

Next ==
  \/ A!Next /\ UNCHANGED noteVars
  \/ N!Next /\ UNCHANGED accountVars
  \/ Restart

Spec == Init /\ [][Next]_vars

-----------------------------------------------------------------------------
(* Properties: those of the parts, which hold of the whole.                *)

\* However sign-ups and log-ins interleave and fail, an account has a wallet that
\* was paid for.
FundedWallet == A!FundedWallet

\* A subscriber hears of stored notifications of the user he subscribed as, even
\* when the client logs in as another user meanwhile.
HeardIsStored == N!HeardIsStored

\* Who subscribes and then reads the list misses no notification.
NothingMissed == N!NothingMissed
=============================================================================
