---------------------------- MODULE AtomicAccounts ----------------------------
(***************************************************************************)
(* What the account service promises those who call it: there are two      *)
(* places for accounts, one that lasts and one that a restart clears, a    *)
(* name is given away at most once in each, and every call takes effect at *)
(* one moment between the request and the answer: a registration makes its *)
(* account and its token together, a login finds the account and makes the *)
(* token together, and a refusal is right about that moment.  A            *)
(* registration may leave an account in the table without knowing it.      *)
(***************************************************************************)
CONSTANTS
  Call,       \* requests to register or to log in
  Name,
  Password,
  Short,      \* passwords that are too short
  NoRequest,  \* of a call that was not made
  NoAccount   \* a name or a token that is not there

VARIABLES
  store,      \* the accounts of each place, by name
  tokens,     \* the account of the token that a call was given
  asked,      \* what each call asks for
  outcome,    \* what became of it, and where
  told        \* the calls that have been answered

vars == <<store, tokens, asked, outcome, told>>

Place == {"table", "memory"}
Kind  == {"register", "login"}

Result(answer, place) == [answer |-> answer, place |-> place]
Undecided == Result("none", "none")
Broken    == Result("broken", "none")

Empty == [n \in Name |-> NoAccount]

Init ==
  /\ store = [place \in Place |-> Empty]
  /\ tokens = [c \in Call |-> NoAccount]
  /\ asked = [c \in Call |-> NoRequest]
  /\ outcome = [c \in Call |-> Undecided]
  /\ told = {}

Asks(c, kind) == asked[c] # NoRequest /\ asked[c].kind = kind
TooShort(c) == asked[c].password \in Short

Entry(c, place) == store[place][asked[c].name]
Present(c, place) == Entry(c, place) # NoAccount

\* The account of that name was made with the same password.
Fits(c, place) == Present(c, place) /\ asked[Entry(c, place)[1]].password = asked[c].password

Ask(c, kind, n, p) ==
  /\ asked[c] = NoRequest
  /\ asked' = [asked EXCEPT ![c] = [kind |-> kind, name |-> n, password |-> p]]
  /\ UNCHANGED <<store, tokens, outcome, told>>

Decide(c, answer, place) ==
  /\ outcome[c] = Undecided
  /\ outcome' = [outcome EXCEPT ![c] = Result(answer, place)]
  /\ UNCHANGED <<asked, told>>

Put(c, place) == store' = [store EXCEPT ![place][asked[c].name] = <<c, place>>]

Register(c, place) ==
  /\ Asks(c, "register") /\ ~TooShort(c) /\ ~Present(c, place)
  /\ Put(c, place)
  /\ tokens' = [tokens EXCEPT ![c] = <<c, place>>]
  /\ Decide(c, "registered", place)

LogIn(c, place) ==
  /\ Asks(c, "login") /\ Fits(c, place)
  /\ tokens' = [tokens EXCEPT ![c] = Entry(c, place)]
  /\ Decide(c, "logged in", place)
  /\ UNCHANGED store

Refuse(c) ==
  /\ \/ Asks(c, "register") /\ TooShort(c) /\ Decide(c, "short", "none")
     \/ \E place \in Place :
          \/ Asks(c, "register") /\ Present(c, place) /\ Decide(c, "taken", place)
          \/ Asks(c, "login") /\ ~Fits(c, place) /\ Decide(c, "invalid", place)
  /\ UNCHANGED <<store, tokens>>

\* An undecided registration may find that it has an account all the same.
MayLeave(c) ==
  Asks(c, "register") /\ ~TooShort(c) /\ ~Present(c, "table") /\ outcome[c] = Undecided

Leave(c) ==
  /\ MayLeave(c)
  /\ Put(c, "table")
  /\ UNCHANGED <<tokens, asked, outcome, told>>

\* The answer is lost on its way.
Lose(c) ==
  /\ asked[c] # NoRequest /\ c \notin told
  /\ outcome' = [outcome EXCEPT ![c] = Broken]
  /\ UNCHANGED <<store, tokens, asked, told>>

Tell(c) ==
  /\ outcome[c] # Undecided
  /\ told' = told \cup {c}
  /\ UNCHANGED <<store, tokens, asked, outcome>>

\* The tokens and one place are cleared, and calls under way are cut off.
Restart ==
  /\ \E users \in {store["table"]} \cup
                  {[store["table"] EXCEPT ![asked[c].name] = <<c, "table">>] :
                     c \in {d \in Call : MayLeave(d)}} :
       store' = [place \in Place |-> IF place = "table" THEN users ELSE Empty]
  /\ tokens' = [c \in Call |-> NoAccount]
  /\ \E Cut \in SUBSET {c \in Call \ told : asked[c] # NoRequest} :
       outcome' = [c \in Call |-> IF c \in Cut THEN Broken ELSE outcome[c]]
  /\ UNCHANGED <<asked, told>>

Next ==
  \/ \E c \in Call :
       \/ \E kind \in Kind, n \in Name, p \in Password : Ask(c, kind, n, p)
       \/ \E place \in Place : Register(c, place) \/ LogIn(c, place)
       \/ Refuse(c)
       \/ Leave(c)
       \/ Lose(c)
       \/ Tell(c)
  \/ Restart

Spec == Init /\ [][Next]_vars
=============================================================================
