------------------------------ MODULE AuthService ------------------------------
(***************************************************************************)
(* Registering and logging in: AuthService::registerUser, login and        *)
(* userFromToken (server/src/auth/auth_service.cpp) over registerUserDb    *)
(* and loginUserDb (server/src/auth/auth_db.cpp).                          *)
(*                                                                         *)
(* The table users is tried first; when the database fails, accounts kept  *)
(* in the server's memory are used instead.  A handler is interrupted      *)
(* between its statements and before it takes g_authMutex; handlers run on *)
(* several loops.                                                          *)
(***************************************************************************)
EXTENDS Naturals

CONSTANTS
  Name,        \* user names, of three characters or more
  Password,
  Short,       \* passwords of fewer than six characters
  NoRequest,   \* of a call that was not made
  NoAccount,   \* a name or token that is not there
  MaxCalls,    \* bound: requests to register or to log in
  MaxFaults,   \* bound: statements that fail and replies that are lost
  MaxRestarts  \* bound: restarts of the server

\* Calls, numbered in the order in which they are made.
Call == 1..MaxCalls

\* An account is known by the call that made it, and where.
Place == {"table", "memory"}
Account == Call \X Place

Kind == {"register", "login"}
Request == [kind : Kind, name : Name, password : Password]

ASSUME AuthAssumption ==
  /\ Short \subseteq Password
  /\ NoRequest \notin Request
  /\ NoAccount \notin Account
  /\ MaxCalls \in Nat /\ MaxFaults \in Nat /\ MaxRestarts \in Nat

VARIABLES
  users,    \* the table users, by name
  memory,   \* g_usersByName
  tokens,   \* g_tokens: whom the token made for a call stands for
  asked,    \* what each call asks for
  pc,       \* where its handler is
  account,  \* the account it has found or made
  reply,    \* what it is told
  at,       \* where that was decided
  epoch,    \* history: restarts when that was decided
  before,   \* history: calls that had been told when the call was made
  faults,   \* faults so far (bounded by MaxFaults)
  restarts  \* restarts so far (bounded by MaxRestarts)

storeVars == <<users, memory, tokens>>
callVars  == <<asked, pc, account, reply, at, epoch, before>>
authVars  == <<storeVars, callVars, faults, restarts>>

TypeOK ==
  /\ users \in [Name -> Account \cup {NoAccount}]
  /\ memory \in [Name -> Account \cup {NoAccount}]
  /\ tokens \in [Call -> Account \cup {NoAccount}]
  /\ asked \in [Call -> Request \cup {NoRequest}]
  /\ pc \in [Call -> {"new", "statement", "touch", "token", "memory", "answer", "done"}]
  /\ account \in [Call -> Account \cup {NoAccount}]
  /\ reply \in [Call -> {"none", "registered", "taken", "short", "logged in", "invalid", "broken"}]
  /\ at \in [Call -> Place \cup {"none"}]
  /\ epoch \in [Call -> Nat]
  /\ before \in [Call -> SUBSET Call]
  /\ faults \in Nat
  /\ restarts \in Nat

Init ==
  /\ users = [n \in Name |-> NoAccount]
  /\ memory = [n \in Name |-> NoAccount]
  /\ tokens = [c \in Call |-> NoAccount]
  /\ asked = [c \in Call |-> NoRequest]
  /\ pc = [c \in Call |-> "new"]
  /\ account = [c \in Call |-> NoAccount]
  /\ reply = [c \in Call |-> "none"]
  /\ at = [c \in Call |-> "none"]
  /\ epoch = [c \in Call |-> 0]
  /\ before = [c \in Call |-> {}]
  /\ faults = 0
  /\ restarts = 0

-----------------------------------------------------------------------------
Registers(c) == asked[c].kind = "register"
NameOf(c) == asked[c].name

\* Whether a name is there: the unique key of the table, and the lookup in
\* g_usersByName.
\* Faulty variant: a store that takes every name.
NeverTaken(store, n) == FALSE

Taken(store, n) == store[n] # NoAccount

\* The account of the name, and a password hash that fits.
\* Faulty variant: the hashes are not compared.
FitsAnyPassword(store, c) == Taken(store, NameOf(c))

Fits(store, c) ==
  Taken(store, NameOf(c)) /\ asked[store[NameOf(c)][1]].password = asked[c].password

Goto(c, label) == pc' = [pc EXCEPT ![c] = label]

Answer(c, text, place) ==
  /\ reply' = [reply EXCEPT ![c] = text]
  /\ at' = [at EXCEPT ![c] = place]
  /\ epoch' = [epoch EXCEPT ![c] = restarts]
  /\ Goto(c, "answer")

Grant(c, acc) == tokens' = [tokens EXCEPT ![c] = acc]

\* A request reaches the server.
Submit(c, kind, n, p) ==
  /\ pc[c] = "new" /\ \A d \in Call : d < c => pc[d] # "new"
  /\ asked' = [asked EXCEPT ![c] = [kind |-> kind, name |-> n, password |-> p]]
  /\ before' = [before EXCEPT ![c] = {d \in Call : pc[d] = "done"}]
  /\ Goto(c, "statement")
  /\ UNCHANGED <<storeVars, account, reply, at, epoch, faults, restarts>>

TooShort(c) == Registers(c) /\ asked[c].password \in Short

RefuseShort(c) ==
  /\ pc[c] = "statement" /\ TooShort(c)
  /\ Answer(c, "short", "none")
  /\ UNCHANGED <<storeVars, asked, account, before, faults, restarts>>

\* registerUserDb: the INSERT, refused by the unique key.
InsertUser(c) ==
  /\ pc[c] = "statement" /\ Registers(c) /\ ~TooShort(c)
  /\ \/ /\ Taken(users, NameOf(c))
        /\ Answer(c, "taken", "table")
        /\ UNCHANGED <<users, account>>
     \/ /\ ~Taken(users, NameOf(c))
        /\ users' = [users EXCEPT ![NameOf(c)] = <<c, "table">>]
        /\ account' = [account EXCEPT ![c] = <<c, "table">>]
        /\ Goto(c, "token")
        /\ UNCHANGED <<reply, at, epoch>>
  /\ UNCHANGED <<memory, tokens, asked, before, faults, restarts>>

\* loginUserDb: the SELECT and the comparison of the hashes ...
SelectUser(c) ==
  /\ pc[c] = "statement" /\ ~Registers(c)
  /\ \/ /\ Fits(users, c)
        /\ account' = [account EXCEPT ![c] = users[NameOf(c)]]
        /\ Goto(c, "touch")
        /\ UNCHANGED <<reply, at, epoch>>
     \/ /\ ~Fits(users, c)
        /\ Answer(c, "invalid", "table")
        /\ UNCHANGED account
  /\ UNCHANGED <<storeVars, asked, before, faults, restarts>>

\* ... and the UPDATE of last_login_at.
TouchUser(c) ==
  /\ pc[c] = "touch"
  /\ Goto(c, "token")
  /\ UNCHANGED <<storeVars, asked, account, reply, at, epoch, before, faults, restarts>>

\* registerUser and login after the database has answered.
IssueToken(c) ==
  /\ pc[c] = "token"
  /\ Grant(c, account[c])
  /\ Answer(c, IF Registers(c) THEN "registered" ELSE "logged in", "table")
  /\ UNCHANGED <<users, memory, asked, account, before, faults, restarts>>

\* registerUser and login after the database has failed, under g_authMutex.
RegisterInMemory(c) ==
  /\ pc[c] = "memory" /\ Registers(c)
  /\ \/ /\ Taken(memory, NameOf(c))
        /\ Answer(c, "taken", "memory")
        /\ UNCHANGED <<memory, account, tokens>>
     \/ /\ ~Taken(memory, NameOf(c))
        /\ memory' = [memory EXCEPT ![NameOf(c)] = <<c, "memory">>]
        /\ account' = [account EXCEPT ![c] = <<c, "memory">>]
        /\ Grant(c, <<c, "memory">>)
        /\ Answer(c, "registered", "memory")
  /\ UNCHANGED <<users, asked, before, faults, restarts>>

LoginInMemory(c) ==
  /\ pc[c] = "memory" /\ ~Registers(c)
  /\ \/ /\ Fits(memory, c)
        /\ account' = [account EXCEPT ![c] = memory[NameOf(c)]]
        /\ Grant(c, memory[NameOf(c)])
        /\ Answer(c, "logged in", "memory")
     \/ /\ ~Fits(memory, c)
        /\ Answer(c, "invalid", "memory")
        /\ UNCHANGED <<account, tokens>>
  /\ UNCHANGED <<users, memory, asked, before, faults, restarts>>

\* The reply arrives.
Deliver(c) ==
  /\ pc[c] = "answer"
  /\ Goto(c, "done")
  /\ UNCHANGED <<storeVars, asked, account, reply, at, epoch, before, faults, restarts>>

-----------------------------------------------------------------------------
(***************************************************************************)
(* Failures.                                                               *)
(***************************************************************************)
Fault == faults < MaxFaults /\ faults' = faults + 1

\* An INSERT whose connection breaks may have been carried out.
InsertAllTheSame(c) ==
  /\ pc[c] = "statement" /\ Registers(c) /\ ~TooShort(c) /\ ~Taken(users, NameOf(c))
  /\ users' = [users EXCEPT ![NameOf(c)] = <<c, "table">>]

\* There is no client, or a statement throws: "Database error."
\* Faulty variant: a login is told that it is invalid.
LoginRefused(c) ==
  IF Registers(c) THEN Goto(c, "memory") /\ UNCHANGED <<reply, at, epoch>>
  ELSE Answer(c, "invalid", "table")

FallBack(c) == Goto(c, "memory") /\ UNCHANGED <<reply, at, epoch>>

DatabaseFails(c) ==
  /\ pc[c] \in {"statement", "touch"} /\ ~TooShort(c)
  /\ Fault
  /\ UNCHANGED users \/ InsertAllTheSame(c)
  /\ account' = [account EXCEPT ![c] = NoAccount]
  /\ FallBack(c)
  /\ UNCHANGED <<memory, tokens, asked, before, restarts>>

\* A client that waits for an answer in vain sees a broken connection.
LoseReply(c) ==
  /\ pc[c] = "answer"
  /\ Fault
  /\ reply' = [reply EXCEPT ![c] = "broken"]
  /\ UNCHANGED <<storeVars, asked, pc, account, at, epoch, before, restarts>>

InHandler(c) == pc[c] \in {"statement", "touch", "token", "memory"}

\* What was in memory is lost.
\* Faulty variant: the tokens outlive the accounts.
ForgetAccounts ==
  /\ memory' = [n \in Name |-> NoAccount]
  /\ UNCHANGED tokens

ForgetMemory ==
  /\ memory' = [n \in Name |-> NoAccount]
  /\ tokens' = [c \in Call |-> NoAccount]

ServerRestart ==
  /\ restarts < MaxRestarts
  /\ restarts' = restarts + 1
  /\ ForgetMemory
  /\ UNCHANGED users \/ \E c \in Call : InsertAllTheSame(c)
  /\ pc' = [c \in Call |-> IF InHandler(c) THEN "answer" ELSE pc[c]]
  /\ reply' = [c \in Call |-> IF InHandler(c) THEN "broken" ELSE reply[c]]
  /\ UNCHANGED <<asked, account, at, epoch, before, faults>>

-----------------------------------------------------------------------------
Handle(c) ==
  \/ RefuseShort(c)
  \/ InsertUser(c)
  \/ SelectUser(c)
  \/ TouchUser(c)
  \/ IssueToken(c)
  \/ RegisterInMemory(c)
  \/ LoginInMemory(c)

Next ==
  \/ \E c \in Call :
       \/ \E kind \in Kind, n \in Name, p \in Password : Submit(c, kind, n, p)
       \/ Handle(c)
       \/ Deliver(c)
       \/ DatabaseFails(c)
       \/ LoseReply(c)
  \/ ServerRestart

Spec == Init /\ [][Next]_authVars

-----------------------------------------------------------------------------
(***************************************************************************)
(* Correctness.                                                            *)
(***************************************************************************)
Granted(c) == reply[c] \in {"registered", "logged in"}

\* An account the user was told of stays as it is where it was made: in the
\* table for ever, in memory until the server restarts.  So no name is given
\* away twice in one place, however the registrations interleave.
AccountsStay ==
  \A c \in Call : reply[c] = "registered" =>
    /\ at[c] = "table" => users[NameOf(c)] = <<c, "table">>
    /\ at[c] = "memory" /\ epoch[c] = restarts => memory[NameOf(c)] = <<c, "memory">>

\* The token a user was given is known until the server restarts, and stands
\* for an account that has the name and the password the user gave.
TokensStay ==
  \A c \in Call : Granted(c) =>
    /\ epoch[c] = restarts => tokens[c] = account[c]
    /\ account[c] \in Account
    /\ NameOf(account[c][1]) = NameOf(c)
    /\ asked[account[c][1]].password = asked[c].password

\* A token that is known stands for an account that exists, under its name.
TokensNameAccounts ==
  \A c \in Call : tokens[c] # NoAccount =>
    tokens[c] \in {users[NameOf(c)], memory[NameOf(c)]}

\* A token works for the user who was given it, until the server restarts, and
\* for nobody else: it is known as long as its account, and stands for it.
TokensWork == TokensStay /\ TokensNameAccounts

\* Who was registered is logged in from then on, unless the account cannot
\* be reached: the database has failed during the login and the account is
\* not in memory, or is not there any more, or the account is in memory and
\* the database has answered.
RefusedWithReason ==
  \A c, d \in Call :
    /\ reply[d] = "invalid" /\ c \in before[d] /\ reply[c] = "registered"
    /\ NameOf(c) = NameOf(d) /\ asked[c].password = asked[d].password
    => \/ at[c] # at[d]
       \/ at[c] = "memory" /\ epoch[c] # epoch[d]
\* What the service has promised so far: a call that found or made its account
\* in the table is decided, though its token comes a step later.
Decided(c) == pc[c] = "token"

TokenOf(c) == IF Decided(c) THEN account[c] ELSE tokens[c]

OutcomeOf(c) ==
  IF Decided(c)
  THEN [answer |-> IF Registers(c) THEN "registered" ELSE "logged in", place |-> "table"]
  ELSE [answer |-> reply[c], place |-> IF reply[c] = "broken" THEN "none" ELSE at[c]]

Store   == [place \in Place |-> IF place = "table" THEN users ELSE memory]
Tokens  == [c \in Call |-> TokenOf(c)]
Outcome == [c \in Call |-> OutcomeOf(c)]
Told    == {c \in Call : pc[c] = "done"}

Atomic == INSTANCE AtomicAccounts
            WITH store <- Store, tokens <- Tokens, outcome <- Outcome, told <- Told

\* Seen from the outside every call takes effect at one moment, although the
\* statements of the handlers, their failures and the token are steps apart.
CallsAreAtomic == Atomic!Spec
=============================================================================
