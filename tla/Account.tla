------------------------------ MODULE Account ------------------------------
(***************************************************************************)
(* Accounts: AuthService.signup and login, UserService.create and the      *)
(* wallet that EtherClientService makes for a new user.                    *)
(*                                                                         *)
(* A sign-up awaits the wallet, which in development the owner's wallet    *)
(* pays for, before it saves the user; only then do the unique indexes     *)
(* tell whether the name or the address was taken.  A log-in changes       *)
(* nothing but the token of the client, and no user is ever changed, so it *)
(* is one step.  A password stands for its digest, a token for the user it *)
(* names; both outlive a restart.  A new wallet is known by the id of the *)
(* user it is for.                                                         *)
(***************************************************************************)
EXTENDS Integers, FiniteSets, Maps

CONSTANTS Clients,   \* the clients of the API
          Names,     \* usernames
          Emails,    \* mail addresses
          Passwords,
          NoId,      \* no user
          IsDev,     \* NODE_ENV is development: new wallets are paid for
          MaxUsers,  \* bound: wallets ever created
          MaxFaults  \* bound: failures and restarts

VARIABLES
  users,   \* the users collection: user id -> document
  funded,  \* wallets that the owner's wallet has paid for
  signups, \* the frames of the sign-ups in flight
  session, \* client -> the user that his token names, NoId: no token
  wallets, \* wallets created so far
  faults   \* failures and restarts so far

vars == <<users, funded, signups, session, wallets, faults>>

UserIds == 1..MaxUsers
\* A sign-up's input, and the document it becomes.
Input == [name: Names, email: Emails, password: Passwords]
NoSignup == [pc |-> "idle", input |-> <<>>, wallet |-> NoId]

TypeOK ==
  /\ DOMAIN users \subseteq UserIds
  /\ \A u \in DOMAIN users : users[u] \in Input
  /\ funded \subseteq UserIds
  /\ \A c \in Clients :
       \/ signups[c] = NoSignup
       \/ signups[c] \in [pc: {"wallet", "save"}, input: Input,
                          wallet: UserIds \cup {NoId}]
  /\ session \in [Clients -> DOMAIN users \cup {NoId}]
  /\ wallets \in 0..MaxUsers
  /\ faults \in 0..MaxFaults

Init ==
  /\ users = <<>>
  /\ funded = {}
  /\ signups = [c \in Clients |-> NoSignup]
  /\ session = [c \in Clients |-> NoId]
  /\ wallets = 0
  /\ faults = 0

Fault == faults < MaxFaults /\ faults' = faults + 1
Return(c) == signups' = [signups EXCEPT ![c] = NoSignup]

\* Wallets of the sign-ups that have none yet are within the bound.
MaySignup == wallets + Cardinality({c \in Clients : signups[c].pc = "wallet"}) < MaxUsers

-----------------------------------------------------------------------------
\* The mutation arrives, and the password is hashed.
Signup(c, input) ==
  /\ signups[c].pc = "idle" /\ MaySignup
  /\ signups' = [signups EXCEPT ![c] = [pc |-> "wallet", input |-> input, wallet |-> NoId]]
  /\ UNCHANGED <<users, funded, session, wallets, faults>>

\* A mutation of CreateWallet: nobody waits for the transaction.
CreateWalletUnpaid(c) ==
  /\ signups[c].pc = "wallet"
  /\ wallets' = wallets + 1
  /\ \/ funded' \in {funded, funded \cup {wallets'}} /\ UNCHANGED faults
     \/ Fault /\ UNCHANGED funded
  /\ signups' = [signups EXCEPT ![c].pc = "save", ![c].wallet = wallets']
  /\ UNCHANGED <<users, session>>

\* createNewWallet: a random key, and 0.1 ether for it.  A transaction that
\* fails, or whose receipt is lost, ends the sign-up.
CreateWallet(c) ==
  /\ signups[c].pc = "wallet"
  /\ wallets' = wallets + 1
  /\ \/ /\ funded' = IF IsDev THEN funded \cup {wallets'} ELSE funded
        /\ signups' = [signups EXCEPT ![c].pc = "save", ![c].wallet = wallets']
        /\ UNCHANGED faults
     \/ /\ IsDev /\ Fault
        /\ funded' \in {funded, funded \cup {wallets'}}
        /\ Return(c)
  /\ UNCHANGED <<users, session>>

Taken(input) ==
  \E u \in DOMAIN users : users[u].name = input.name \/ users[u].email = input.email

\* A mutation of SaveUser: the token is signed before the write answers.
SaveUserUnawaited(c) ==
  LET f == signups[c]
  IN /\ f.pc = "save"
     /\ Return(c)
     /\ session' = [session EXCEPT ![c] = f.wallet]
     /\ users' = IF Taken(f.input) THEN users ELSE With(users, f.wallet, f.input)
     /\ UNCHANGED <<funded, wallets, faults>>

\* save, against the unique indexes, and the token.  The answer to a write that
\* was done may be lost.
SaveUser(c) ==
  LET f == signups[c]
      inserted == With(users, f.wallet, f.input)
  IN /\ f.pc = "save"
     /\ Return(c)
     /\ \/ /\ Taken(f.input)
           /\ UNCHANGED <<users, session, faults>>
        \/ /\ ~Taken(f.input)
           /\ users' = inserted
           /\ session' = [session EXCEPT ![c] = f.wallet]
           /\ UNCHANGED faults
        \/ /\ Fault
           /\ users' \in {users} \cup IF Taken(f.input) THEN {} ELSE {inserted}
           /\ UNCHANGED session
     /\ UNCHANGED <<funded, wallets>>

\* findOneByEmail, the comparison with the digest, and the token.
Login(c, email, password) ==
  /\ signups[c].pc = "idle"
  /\ \E u \in DOMAIN users :
       /\ users[u].email = email /\ users[u].password = password
       /\ session' = [session EXCEPT ![c] = u]
  /\ UNCHANGED <<users, funded, signups, wallets, faults>>

\* The process restarts.
Restart ==
  /\ signups' = [c \in Clients |-> NoSignup]
  /\ UNCHANGED <<users, funded, session, wallets>>

Next ==
  \E c \in Clients : \/ \E input \in Input : Signup(c, input)
                     \/ CreateWallet(c) \/ SaveUser(c)
                     \/ \E e \in Emails, w \in Passwords : Login(c, e, w)

-----------------------------------------------------------------------------
(* Properties                                                              *)

\* However sign-ups for one name or address overlap and fail, in development
\* every account has a wallet that was paid for before it could be used.
FundedWallet == IsDev => DOMAIN users \subseteq funded
=============================================================================
