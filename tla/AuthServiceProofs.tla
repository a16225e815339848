--------------------------- MODULE AuthServiceProofs ---------------------------
(***************************************************************************)
(* Proofs about AuthService and LoginDialog, for any number of calls,      *)
(* names, passwords, windows, failures and restarts.                       *)
(*                                                                         *)
(* The argument: a name that is taken in a store keeps its account, so     *)
(* what a handler has found or made there is still there when it answers,  *)
(* and when a later login looks for it.  That is also the moment at which  *)
(* the call takes effect for those who see the service from outside.       *)
(***************************************************************************)
EXTENDS LoginDialog, TLAPS

\* What is asked for, and what a call may have before it is answered.
CallsInOrder ==
  \A c \in Call :
    /\ pc[c] # "new" => asked[c] \in Request
    /\ pc[c] = "new" \/ InHandler(c) => reply[c] = "none" /\ tokens[c] = NoAccount
    /\ epoch[c] <= restarts
    /\ \A d \in before[c] : pc[d] = "done"

\* An account of a store was made there, by a call with its name.
Named(store, place) ==
  \A n \in Name : store[n] # NoAccount =>
    /\ store[n][2] = place
    /\ pc[store[n][1]] # "new"
    /\ NameOf(store[n][1]) = n

StoresNamed == Named(users, "table") /\ Named(memory, "memory")

\* The account is that of the call: of the same name and password.
OwnAccount(c) ==
  /\ account[c] \in Account
  /\ pc[account[c][1]] # "new"
  /\ NameOf(account[c][1]) = NameOf(c)
  /\ asked[account[c][1]].password = asked[c].password

\* What a handler has found in the table is still there.
Found(c) ==
  /\ OwnAccount(c)
  /\ users[NameOf(c)] = account[c]
  /\ Registers(c) => pc[c] = "token" /\ account[c] = <<c, "table">>

FoundStays == \A c \in Call : pc[c] \in {"touch", "token"} => Found(c)

\* And what was answered.
Kept(c) ==
  /\ pc[c] \in {"answer", "done"}
  /\ at[c] \in Place
  /\ OwnAccount(c)
  /\ at[c] = "table" => users[NameOf(c)] = account[c]
  /\ epoch[c] = restarts =>
       /\ tokens[c] = account[c]
       /\ at[c] = "memory" => memory[NameOf(c)] = account[c]
  /\ reply[c] = "registered" => account[c] = <<c, at[c]>>

GrantStays == \A c \in Call : Granted(c) => Kept(c)

\* A login is refused for a reason, as far as one registration is concerned.
Reason(c, d) ==
  reply[c] = "registered" /\ NameOf(c) = NameOf(d) /\ asked[c].password = asked[d].password
  => \/ at[c] # at[d]
     \/ at[c] = "memory" /\ epoch[c] # epoch[d]

LEMMA Reasons ==
  /\ RefusedWithReason <=> \A c, d \in Call : reply[d] = "invalid" /\ c \in before[d] => Reason(c, d)
  /\ (RefusedWithReason)' <=> (\A c, d \in Call : reply[d] = "invalid" /\ c \in before[d] => Reason(c, d))'
BY DEF RefusedWithReason, Reason

IInv ==
  /\ TypeOK
  /\ CallsInOrder
  /\ StoresNamed
  /\ FoundStays
  /\ GrantStays
  /\ TokensNameAccounts
  /\ RefusedWithReason

LEMMA AccountParts == \A a \in Account : a[1] \in Call /\ a[2] \in Place /\ a = <<a[1], a[2]>>
BY DEF Account

LEMMA StoreParts ==
  ASSUME TypeOK
  PROVE  /\ \A n \in Name : users[n] # NoAccount => users[n] \in Account /\ users[n][1] \in Call
         /\ \A n \in Name : memory[n] # NoAccount => memory[n] \in Account /\ memory[n][1] \in Call
<1>1. /\ users \in [Name -> Account \cup {NoAccount}]
      /\ memory \in [Name -> Account \cup {NoAccount}]
  BY DEF TypeOK
<1>2. \A n \in Name : users[n] # NoAccount => users[n] \in Account
  BY <1>1
<1>3. \A n \in Name : memory[n] # NoAccount => memory[n] \in Account
  BY <1>1
<1> QED
  BY <1>2, <1>3, AccountParts

LEMMA InitInv == Init => IInv
BY AuthAssumption DEF Init, IInv, TypeOK, CallsInOrder, StoresNamed, Named, FoundStays, GrantStays, Granted,
   TokensNameAccounts, RefusedWithReason, InHandler, Call

\* What every step does to the calls that were made.
Forward ==
  /\ \A d \in Call : pc[d] # "new" => asked'[d] = asked[d] /\ pc'[d] # "new"
  /\ \A d \in Call : pc[d] = "done" => pc'[d] = "done"

LEMMA UsersStay ==
  ASSUME TypeOK, StoresNamed, Forward, users' = users
  PROVE  Named(users, "table")'
<1>1. \A n \in Name : users[n] # NoAccount => users[n][1] \in Call
  BY StoreParts
<1> QED
  BY <1>1 DEF StoresNamed, Named, NameOf, Forward

LEMMA MemoryStays ==
  ASSUME TypeOK, StoresNamed, Forward, memory' = memory
  PROVE  Named(memory, "memory")'
<1>1. \A n \in Name : memory[n] # NoAccount => memory[n][1] \in Call
  BY StoreParts
<1> QED
  BY <1>1 DEF StoresNamed, Named, NameOf, Forward

LEMMA UserAdded ==
  ASSUME TypeOK, CallsInOrder, StoresNamed, Forward, NEW c \in Call, pc[c] # "new",
         users' = [users EXCEPT ![NameOf(c)] = <<c, "table">>]
  PROVE  Named(users, "table")'
<1>1. \A n \in Name : users[n] # NoAccount => users[n][1] \in Call
  BY StoreParts
<1>2. NameOf(c) \in Name
  BY DEF CallsInOrder, Request, NameOf
<1>3. \A n \in Name : users'[n] = IF n = NameOf(c) THEN <<c, "table">> ELSE users[n]
  BY <1>2 DEF TypeOK
<1> QED
  BY <1>1, <1>3 DEF StoresNamed, Named, NameOf, Forward

LEMMA MemoryAdded ==
  ASSUME TypeOK, CallsInOrder, StoresNamed, Forward, NEW c \in Call, pc[c] # "new",
         memory' = [memory EXCEPT ![NameOf(c)] = <<c, "memory">>]
  PROVE  Named(memory, "memory")'
<1>1. \A n \in Name : memory[n] # NoAccount => memory[n][1] \in Call
  BY StoreParts
<1>2. NameOf(c) \in Name
  BY DEF CallsInOrder, Request, NameOf
<1>3. \A n \in Name : memory'[n] = IF n = NameOf(c) THEN <<c, "memory">> ELSE memory[n]
  BY <1>2 DEF TypeOK
<1> QED
  BY <1>1, <1>3 DEF StoresNamed, Named, NameOf, Forward

\* An account stays that of the call.
LEMMA OwnStays ==
  ASSUME Forward, NEW c \in Call, pc[c] # "new", OwnAccount(c), account'[c] = account[c]
  PROVE  OwnAccount(c)' /\ NameOf(c)' = NameOf(c)
<1>1. account[c][1] \in Call
  BY AccountParts DEF OwnAccount
<1> QED
  BY <1>1 DEF OwnAccount, NameOf, Forward

\* Accounts are never replaced while the server runs.
StoresGrow ==
  /\ \A n \in Name : users[n] # NoAccount => users'[n] = users[n]
  /\ \A n \in Name : memory[n] # NoAccount => memory'[n] = memory[n]

\* A step that leaves a call alone.
Alone(c) ==
  /\ asked'[c] = asked[c] /\ pc'[c] = pc[c] /\ account'[c] = account[c]
  /\ reply'[c] = reply[c] /\ at'[c] = at[c] /\ epoch'[c] = epoch[c] /\ tokens'[c] = tokens[c]

LEMMA FoundAlone ==
  ASSUME FoundStays, CallsInOrder, Forward, StoresGrow, NEW c \in Call, Alone(c), pc[c] \in {"touch", "token"}
  PROVE  Found(c)'
<1>1. Found(c) /\ OwnAccount(c) /\ account[c] \in Account /\ users[NameOf(c)] = account[c]
  BY DEF FoundStays, Found, OwnAccount
<1>2. OwnAccount(c)' /\ NameOf(c)' = NameOf(c)
  BY <1>1, OwnStays DEF Alone
<1>3. NameOf(c) \in Name
  BY DEF CallsInOrder, Request, NameOf
<1>4. users'[NameOf(c)] = account[c]
  BY <1>1, <1>3, AuthAssumption DEF StoresGrow
<1> QED
  BY <1>1, <1>2, <1>4 DEF Found, Alone, Registers

LEMMA KeptAlone ==
  ASSUME GrantStays, CallsInOrder, Forward, StoresGrow, restarts' = restarts,
         NEW c \in Call, Alone(c), Granted(c)
  PROVE  Kept(c)'
<1>1. Kept(c) /\ OwnAccount(c) /\ account[c] \in Account /\ pc[c] # "new"
  BY DEF GrantStays, Kept, OwnAccount
<1>2. OwnAccount(c)' /\ NameOf(c)' = NameOf(c)
  BY <1>1, OwnStays DEF Alone
<1>3. NameOf(c) \in Name
  BY <1>1 DEF CallsInOrder, Request, NameOf
<1>4. users[NameOf(c)] = account[c] => users'[NameOf(c)] = account[c]
  BY <1>1, <1>3, AuthAssumption DEF StoresGrow
<1>5. memory[NameOf(c)] = account[c] => memory'[NameOf(c)] = account[c]
  BY <1>1, <1>3, AuthAssumption DEF StoresGrow
<1> QED
  BY <1>1, <1>2, <1>4, <1>5 DEF Kept, Alone

LEMMA TokenAlone ==
  ASSUME TokensNameAccounts, CallsInOrder, StoresGrow, NEW c \in Call, Alone(c), tokens[c] # NoAccount
  PROVE  tokens'[c] \in {users'[NameOf(c)'], memory'[NameOf(c)']}
<1>1. pc[c] # "new" /\ NameOf(c) \in Name /\ NameOf(c)' = NameOf(c)
  BY DEF CallsInOrder, Request, NameOf, Alone
<1> QED
  BY <1>1 DEF TokensNameAccounts, StoresGrow, Alone

\* What a step of one call that is not over has to show.
LEMMA OneCall ==
  ASSUME IInv, NEW c \in Call, pc[c] \notin {"new", "done"}, pc'[c] # "new", asked' = asked,
         before' = before, restarts' = restarts, StoresGrow, \A d \in Call : d # c => Alone(d),
         TypeOK', StoresNamed',
         InHandler(c)' => reply'[c] = "none" /\ tokens'[c] = NoAccount,
         epoch'[c] <= restarts,
         pc'[c] \in {"touch", "token"} => Found(c)',
         Granted(c)' => Kept(c)',
         tokens'[c] # NoAccount => tokens'[c] \in {users'[NameOf(c)], memory'[NameOf(c)]},
         reply'[c] = "invalid" => \A b \in before[c] : Reason(b, c)'
  PROVE  IInv'
<1> USE DEF IInv
<1>1. Forward
  BY DEF Forward, Alone
<1>2. CallsInOrder'
  <2> SUFFICES ASSUME NEW d \in Call
               PROVE  /\ pc'[d] # "new" => asked'[d] \in Request
                      /\ pc'[d] = "new" \/ InHandler(d)' => reply'[d] = "none" /\ tokens'[d] = NoAccount
                      /\ epoch'[d] <= restarts'
                      /\ \A e \in before'[d] : pc'[e] = "done"
    BY DEF CallsInOrder
  <2>1. \A e \in before'[d] : pc'[e] = "done"
    BY <1>1 DEF CallsInOrder, Forward, TypeOK
  <2>2. CASE d = c
    BY <2>1, <2>2 DEF CallsInOrder
  <2>3. CASE d # c
    <3>1. Alone(d)
      BY <2>3
    <3> QED
      BY <2>1, <3>1 DEF CallsInOrder, Alone, InHandler
  <2> QED
    BY <2>2, <2>3
<1>3. FoundStays'
  <2> SUFFICES ASSUME NEW d \in Call, pc'[d] \in {"touch", "token"} PROVE Found(d)'
    BY DEF FoundStays
  <2> QED
    BY <1>1, FoundAlone DEF Alone
<1>4. GrantStays'
  <2> SUFFICES ASSUME NEW d \in Call, Granted(d)' PROVE Kept(d)'
    BY DEF GrantStays
  <2>1. d # c => Granted(d)
    BY DEF Granted, Alone
  <2> QED
    BY <1>1, <2>1, KeptAlone
<1>5. TokensNameAccounts'
  <2> SUFFICES ASSUME NEW d \in Call, tokens'[d] # NoAccount
               PROVE  tokens'[d] \in {users'[NameOf(d)'], memory'[NameOf(d)']}
    BY DEF TokensNameAccounts
  <2>1. NameOf(d)' = NameOf(d)
    BY DEF NameOf
  <2>2. d # c => tokens[d] # NoAccount
    BY DEF Alone
  <2> QED
    BY <2>1, <2>2, TokenAlone
<1>6. RefusedWithReason'
  <2> SUFFICES ASSUME NEW b \in Call, NEW d \in Call, reply'[d] = "invalid", b \in before[d]
               PROVE  Reason(b, d)'
    BY Reasons
  <2>1. pc[b] = "done" /\ b # c
    BY DEF CallsInOrder
  <2>2. CASE d = c
    BY <2>2
  <2>3. CASE d # c
    <3>1. Alone(b) /\ Alone(d)
      BY <2>1, <2>3
    <3>2. Reason(b, d)
      BY <3>1, Reasons DEF Alone
    <3> QED
      BY <3>1, <3>2 DEF Reason, Alone, NameOf
  <2> QED
    BY <2>2, <2>3
<1> QED
  BY <1>2, <1>3, <1>4, <1>5, <1>6

-----------------------------------------------------------------------------
LEMMA SubmitInv ==
  ASSUME NEW c \in Call, NEW kind \in Kind, NEW n \in Name, NEW p \in Password
  PROVE  IInv /\ Submit(c, kind, n, p) => IInv'
<1> SUFFICES ASSUME IInv, Submit(c, kind, n, p) PROVE IInv'
  OBVIOUS
<1> USE DEF IInv, Submit, Goto, storeVars
<1>0. /\ \A d \in Call : d # c => asked'[d] = asked[d] /\ pc'[d] = pc[d]
      /\ pc[c] = "new" /\ pc'[c] = "statement"
      /\ Forward /\ StoresGrow /\ \A d \in Call : d # c => Alone(d)
      /\ restarts' = restarts /\ tokens' = tokens /\ reply' = reply
  BY DEF TypeOK, Forward, StoresGrow, Alone
<1>1. TypeOK'
  BY DEF TypeOK, Request
<1>2. CallsInOrder'
  BY DEF TypeOK, CallsInOrder, InHandler, Request
<1>3. StoresNamed'
  BY <1>0, UsersStay, MemoryStays DEF StoresNamed
<1>4. FoundStays'
  <2> SUFFICES ASSUME NEW d \in Call, pc'[d] \in {"touch", "token"} PROVE Found(d)'
    BY DEF FoundStays
  <2> QED
    BY <1>0, FoundAlone
<1>5. GrantStays'
  <2> SUFFICES ASSUME NEW d \in Call, Granted(d)' PROVE Kept(d)'
    BY DEF GrantStays
  <2>1. Granted(d) /\ d # c
    BY <1>0 DEF Granted, GrantStays, Kept
  <2> QED
    BY <1>0, <2>1, KeptAlone
<1>6. TokensNameAccounts'
  <2> SUFFICES ASSUME NEW d \in Call, tokens'[d] # NoAccount
               PROVE  tokens'[d] \in {users'[NameOf(d)'], memory'[NameOf(d)']}
    BY DEF TokensNameAccounts
  <2>1. d # c /\ tokens[d] # NoAccount
    BY <1>0 DEF CallsInOrder
  <2> QED
    BY <1>0, <2>1, TokenAlone
<1>7. RefusedWithReason'
  <2> SUFFICES ASSUME NEW b \in Call, NEW d \in Call, reply'[d] = "invalid", b \in before'[d]
               PROVE  Reason(b, d)'
    BY Reasons
  <2>1. d # c
    BY <1>0 DEF CallsInOrder
  <2>2. b \in before[d]
    BY <2>1 DEF TypeOK
  <2>3. pc[b] = "done" /\ b # c
    BY <1>0, <2>2 DEF CallsInOrder
  <2>4. Alone(b) /\ Alone(d) /\ Reason(b, d)
    BY <1>0, <2>1, <2>2, <2>3, Reasons DEF Alone
  <2> QED
    BY <2>4 DEF Reason, Alone, NameOf
<1> QED
  BY <1>1, <1>2, <1>3, <1>4, <1>5, <1>6, <1>7

\* A name that is asked for.
LEMMA NameAsked ==
  ASSUME CallsInOrder, NEW c \in Call, pc[c] # "new"
  PROVE  NameOf(c) \in Name /\ asked[c] \in Request
BY DEF CallsInOrder, Request, NameOf

LEMMA Counters ==
  IInv => /\ restarts \in Nat /\ restarts <= restarts
          /\ faults \in Nat /\ faults + 1 \in Nat
<1>1. IInv => restarts \in Nat /\ faults \in Nat
  BY DEF IInv, TypeOK
<1> QED
  BY <1>1

LEMMA RefuseShortInv ==
  ASSUME NEW c \in Call
  PROVE  IInv /\ RefuseShort(c) => IInv'
<1> SUFFICES ASSUME IInv, RefuseShort(c) PROVE IInv'
  OBVIOUS
<1> USE DEF IInv, RefuseShort, Answer, Goto, storeVars
<1>1. /\ \A d \in Call : d # c => Alone(d)
      /\ pc'[c] = "answer" /\ reply'[c] = "short" /\ epoch'[c] = restarts /\ tokens'[c] = NoAccount
      /\ StoresGrow /\ Forward
  BY DEF TypeOK, Alone, StoresGrow, CallsInOrder, InHandler, Forward
<1>2. TypeOK'
  BY DEF TypeOK
<1>3. StoresNamed'
  BY <1>1, UsersStay, MemoryStays DEF StoresNamed
<1>4. ~InHandler(c)' /\ ~Granted(c)' /\ epoch'[c] <= restarts
  BY <1>1, Counters DEF InHandler, Granted
<1> QED
  BY <1>1, <1>2, <1>3, <1>4, OneCall

LEMMA InsertUserInv ==
  ASSUME NEW c \in Call
  PROVE  IInv /\ InsertUser(c) => IInv'
<1> SUFFICES ASSUME IInv, InsertUser(c) PROVE IInv'
  OBVIOUS
<1> USE DEF IInv, InsertUser, Goto
<1>0. NameOf(c) \in Name /\ asked[c] \in Request /\ reply[c] = "none" /\ tokens[c] = NoAccount
      /\ c \in Call /\ <<c, "table">> \in Account /\ epoch[c] <= restarts
  BY NameAsked DEF CallsInOrder, InHandler, Account, Place
<1>1. CASE /\ Taken(users, NameOf(c))
           /\ Answer(c, "taken", "table")
           /\ UNCHANGED <<users, account>>
  <2>1. /\ \A d \in Call : d # c => Alone(d)
        /\ pc'[c] = "answer" /\ reply'[c] = "taken" /\ epoch'[c] = restarts /\ tokens'[c] = NoAccount
        /\ StoresGrow /\ Forward
    BY <1>0, <1>1 DEF TypeOK, Answer, Alone, StoresGrow, Forward
  <2>2. TypeOK'
    BY <1>1 DEF TypeOK, Answer, Place
  <2>3. StoresNamed'
    BY <1>1, <2>1, UsersStay, MemoryStays DEF StoresNamed
  <2>4. ~InHandler(c)' /\ ~Granted(c)' /\ epoch'[c] <= restarts
    BY <2>1, Counters DEF InHandler, Granted
  <2> QED
    BY <2>1, <2>2, <2>3, <2>4, OneCall
<1>2. CASE /\ ~Taken(users, NameOf(c))
           /\ users' = [users EXCEPT ![NameOf(c)] = <<c, "table">>]
           /\ account' = [account EXCEPT ![c] = <<c, "table">>]
           /\ Goto(c, "token")
           /\ UNCHANGED <<reply, at, epoch>>
  <2>1. /\ \A d \in Call : d # c => Alone(d)
        /\ pc'[c] = "token" /\ reply'[c] = "none" /\ tokens'[c] = NoAccount
        /\ account'[c] = <<c, "table">> /\ users'[NameOf(c)] = <<c, "table">>
        /\ StoresGrow /\ Forward
    BY <1>0, <1>2 DEF TypeOK, Alone, StoresGrow, Forward, Taken
  <2>2. TypeOK'
    BY <1>0, <1>2 DEF TypeOK
  <2>3. StoresNamed'
    BY <1>2, <2>1, UserAdded, MemoryStays DEF StoresNamed
  <2>4. Found(c)'
    BY <1>0, <2>1 DEF Found, OwnAccount, NameOf
  <2>5. ~Granted(c)' /\ epoch'[c] <= restarts
    BY <1>0, <1>2, <2>1 DEF Granted
  <2> QED
    BY <2>1, <2>2, <2>3, <2>4, <2>5, OneCall
<1> QED
  BY <1>1, <1>2

\* A login that finds no account that fits has a reason.
LEMMA NoneFits ==
  ASSUME IInv, NEW b \in Call, NEW c \in Call, pc[c] # "new", pc[b] # "new", b # c, Alone(b), asked' = asked,
         NEW place \in Place, at'[c] = place, epoch'[c] = restarts,
         ~Fits(IF place = "table" THEN users ELSE memory, c)
  PROVE  Reason(b, c)'
<1> SUFFICES ASSUME reply[b] = "registered", NameOf(b) = NameOf(c),
                    asked[b].password = asked[c].password, at[b] = at'[c],
                    place = "memory" => epoch[b] = restarts
             PROVE  FALSE
  BY DEF Reason, Alone, NameOf, Place
<1>1. Kept(b) /\ OwnAccount(b) /\ account[b] \in Account
  BY DEF IInv, GrantStays, Granted, Kept, OwnAccount
<1>2. account[b] # NoAccount
  BY <1>1, AuthAssumption
<1>3. CASE place = "table"
  BY <1>1, <1>2, <1>3 DEF Kept, OwnAccount, Fits, Taken
<1>4. CASE place = "memory"
  BY <1>1, <1>2, <1>4 DEF Kept, OwnAccount, Fits, Taken
<1> QED
  BY <1>3, <1>4 DEF Place

\* An account that fits is that of the call.
LEMMA FitsOwn ==
  ASSUME IInv, NEW c \in Call, pc[c] # "new", Forward, asked' = asked,
         \/ Fits(users, c) /\ account'[c] = users[NameOf(c)]
         \/ Fits(memory, c) /\ account'[c] = memory[NameOf(c)]
  PROVE  OwnAccount(c)' /\ account'[c] # NoAccount
<1>1. NameOf(c) \in Name
  BY NameAsked DEF IInv
<1>2. account'[c] # NoAccount /\ account'[c] \in Account /\ account'[c][1] \in Call
  BY <1>1, StoreParts DEF IInv, Fits, Taken
<1>3. NameOf(account'[c][1]) = NameOf(c) /\ pc[account'[c][1]] # "new"
  BY <1>1 DEF IInv, Fits, Taken, StoresNamed, Named
<1>4. asked[account'[c][1]].password = asked[c].password
  BY DEF Fits
<1> QED
  BY <1>2, <1>3, <1>4 DEF OwnAccount, NameOf, Forward

LEMMA SelectUserInv ==
  ASSUME NEW c \in Call
  PROVE  IInv /\ SelectUser(c) => IInv'
<1> SUFFICES ASSUME IInv, SelectUser(c) PROVE IInv'
  OBVIOUS
<1> USE DEF SelectUser, Goto, storeVars
<1>0. NameOf(c) \in Name /\ asked[c] \in Request /\ reply[c] = "none" /\ tokens[c] = NoAccount
      /\ epoch[c] <= restarts /\ pc[c] = "statement"
  BY NameAsked DEF IInv, CallsInOrder, InHandler
<1>1. CASE /\ Fits(users, c)
           /\ account' = [account EXCEPT ![c] = users[NameOf(c)]]
           /\ Goto(c, "touch")
           /\ UNCHANGED <<reply, at, epoch>>
  <2>1. /\ \A d \in Call : d # c => Alone(d)
        /\ pc'[c] = "touch" /\ reply'[c] = "none" /\ tokens'[c] = NoAccount
        /\ account'[c] = users[NameOf(c)]
        /\ StoresGrow /\ Forward
    BY <1>0, <1>1 DEF IInv, TypeOK, Alone, StoresGrow, Forward
  <2>2. TypeOK'
    BY <1>0, <1>1 DEF IInv, TypeOK
  <2>3. StoresNamed'
    BY <2>1, UsersStay, MemoryStays DEF IInv, StoresNamed
  <2>4. OwnAccount(c)'
    <3>1. pc[c] # "new" /\ asked' = asked
      BY <1>0
    <3>2. Fits(users, c) /\ account'[c] = users[NameOf(c)]
      BY <1>1, <2>1
    <3> QED
      BY <2>1, <3>1, <3>2, FitsOwn
  <2>5. Found(c)'
    BY <1>0, <2>1, <2>4 DEF Found, NameOf, Registers
  <2>6. ~Granted(c)' /\ epoch'[c] <= restarts
    BY <1>0, <1>1, <2>1 DEF Granted
  <2> QED
    BY <1>0, <2>1, <2>2, <2>3, <2>5, <2>6, OneCall
<1>2. CASE /\ ~Fits(users, c)
           /\ Answer(c, "invalid", "table")
           /\ UNCHANGED account
  <2>1. /\ \A d \in Call : d # c => Alone(d)
        /\ pc'[c] = "answer" /\ reply'[c] = "invalid" /\ epoch'[c] = restarts /\ tokens'[c] = NoAccount
        /\ at'[c] = "table"
        /\ StoresGrow /\ Forward
    BY <1>0, <1>2 DEF IInv, TypeOK, Answer, Alone, StoresGrow, Forward
  <2>2. TypeOK'
    BY <1>2 DEF IInv, TypeOK, Answer, Place
  <2>3. StoresNamed'
    BY <2>1, UsersStay, MemoryStays DEF IInv, StoresNamed
  <2>4. ~InHandler(c)' /\ ~Granted(c)' /\ epoch'[c] <= restarts
    BY <2>1, Counters DEF InHandler, Granted
  <2>5. \A b \in before[c] : Reason(b, c)'
    <3> TAKE b \in before[c]
    <3>1. b \in Call /\ pc[b] = "done" /\ b # c
      BY <1>0 DEF IInv, TypeOK, CallsInOrder
    <3> QED
      BY <1>0, <1>2, <2>1, <3>1, NoneFits DEF Place
  <2> QED
    BY <1>0, <2>1, <2>2, <2>3, <2>4, <2>5, OneCall
<1> QED
  BY <1>1, <1>2

LEMMA TouchUserInv ==
  ASSUME NEW c \in Call
  PROVE  IInv /\ TouchUser(c) => IInv'
<1> SUFFICES ASSUME IInv, TouchUser(c) PROVE IInv'
  OBVIOUS
<1> USE DEF TouchUser, Goto, storeVars
<1>0. reply[c] = "none" /\ tokens[c] = NoAccount /\ epoch[c] <= restarts /\ Found(c) /\ ~Registers(c)
  BY DEF IInv, CallsInOrder, InHandler, FoundStays, Found
<1>1. /\ \A d \in Call : d # c => Alone(d)
      /\ pc'[c] = "token" /\ reply'[c] = "none" /\ tokens'[c] = NoAccount /\ account'[c] = account[c]
      /\ StoresGrow /\ Forward
  BY <1>0 DEF IInv, TypeOK, Alone, StoresGrow, Forward
<1>2. TypeOK'
  BY DEF IInv, TypeOK
<1>3. StoresNamed'
  BY <1>1, UsersStay, MemoryStays DEF IInv, StoresNamed
<1>4. Found(c)'
  <2>1. OwnAccount(c)' /\ NameOf(c)' = NameOf(c)
    BY <1>0, <1>1, OwnStays DEF Found
  <2> QED
    BY <1>0, <1>1, <2>1 DEF Found, Registers
<1>5. ~Granted(c)' /\ epoch'[c] <= restarts
  BY <1>0 DEF Granted
<1> QED
  BY <1>1, <1>2, <1>3, <1>4, <1>5, OneCall

LEMMA IssueTokenInv ==
  ASSUME NEW c \in Call
  PROVE  IInv /\ IssueToken(c) => IInv'
<1> SUFFICES ASSUME IInv, IssueToken(c) PROVE IInv'
  OBVIOUS
<1> USE DEF IssueToken, Answer, Grant, Goto
<1>0. Found(c) /\ account[c] \in Account /\ NameOf(c) \in Name
  BY NameAsked DEF IInv, FoundStays, Found, OwnAccount
<1>1. /\ \A d \in Call : d # c => Alone(d)
      /\ pc'[c] = "answer" /\ at'[c] = "table" /\ epoch'[c] = restarts /\ account'[c] = account[c]
      /\ tokens'[c] = account[c]
      /\ Registers(c) => reply'[c] = "registered"
      /\ ~Registers(c) => reply'[c] = "logged in"
      /\ StoresGrow /\ Forward
  BY DEF IInv, TypeOK, Alone, StoresGrow, Forward
<1>2. TypeOK'
  BY <1>0 DEF IInv, TypeOK, Place
<1>3. StoresNamed'
  BY <1>1, UsersStay, MemoryStays DEF IInv, StoresNamed
<1>4. OwnAccount(c)' /\ NameOf(c)' = NameOf(c)
  BY <1>0, <1>1, OwnStays DEF Found
<1>5. Kept(c)'
  <2>1. users'[NameOf(c)'] = account'[c]
    BY <1>0, <1>1, <1>4 DEF Found
  <2>2. reply'[c] = "registered" => account'[c] = <<c, "table">>
    BY <1>0, <1>1 DEF Found, Registers
  <2> QED
    BY <1>1, <1>4, <2>1, <2>2 DEF Kept, Place
<1>6. tokens'[c] \in {users'[NameOf(c)], memory'[NameOf(c)]}
  BY <1>0, <1>1 DEF Found
<1>7. ~InHandler(c)' /\ epoch'[c] <= restarts
  BY <1>1, Counters DEF InHandler
<1>8. reply'[c] # "invalid"
  BY <1>1 DEF Registers
<1> QED
  BY <1>1, <1>2, <1>3, <1>5, <1>6, <1>7, <1>8, OneCall

LEMMA RegisterInMemoryInv ==
  ASSUME NEW c \in Call
  PROVE  IInv /\ RegisterInMemory(c) => IInv'
<1> SUFFICES ASSUME IInv, RegisterInMemory(c) PROVE IInv'
  OBVIOUS
<1> USE DEF RegisterInMemory
<1>0. NameOf(c) \in Name /\ asked[c] \in Request /\ reply[c] = "none" /\ tokens[c] = NoAccount
      /\ <<c, "memory">> \in Account /\ <<c, "memory">>[1] = c
  BY NameAsked DEF IInv, CallsInOrder, InHandler, Account, Place
<1>1. CASE /\ Taken(memory, NameOf(c))
           /\ Answer(c, "taken", "memory")
           /\ UNCHANGED <<memory, account, tokens>>
  <2>1. /\ \A d \in Call : d # c => Alone(d)
        /\ pc'[c] = "answer" /\ reply'[c] = "taken" /\ epoch'[c] = restarts /\ tokens'[c] = NoAccount
        /\ StoresGrow /\ Forward
    BY <1>0, <1>1 DEF IInv, TypeOK, Answer, Goto, Alone, StoresGrow, Forward
  <2>2. TypeOK'
    BY <1>1 DEF IInv, TypeOK, Answer, Goto, Place
  <2>3. StoresNamed'
    BY <1>1, <2>1, UsersStay, MemoryStays DEF IInv, StoresNamed
  <2>4. ~InHandler(c)' /\ ~Granted(c)' /\ epoch'[c] <= restarts
    BY <2>1, Counters DEF InHandler, Granted
  <2> QED
    BY <2>1, <2>2, <2>3, <2>4, OneCall
<1>2. CASE /\ ~Taken(memory, NameOf(c))
           /\ memory' = [memory EXCEPT ![NameOf(c)] = <<c, "memory">>]
           /\ account' = [account EXCEPT ![c] = <<c, "memory">>]
           /\ Grant(c, <<c, "memory">>)
           /\ Answer(c, "registered", "memory")
  <2>1. /\ \A d \in Call : d # c => Alone(d)
        /\ pc'[c] = "answer" /\ reply'[c] = "registered" /\ at'[c] = "memory" /\ epoch'[c] = restarts
        /\ account'[c] = <<c, "memory">> /\ tokens'[c] = <<c, "memory">>
        /\ memory'[NameOf(c)] = <<c, "memory">>
        /\ StoresGrow /\ Forward
    BY <1>0, <1>2 DEF IInv, TypeOK, Answer, Goto, Grant, Alone, StoresGrow, Forward, Taken
  <2>2. TypeOK'
    BY <1>0, <1>2 DEF IInv, TypeOK, Answer, Goto, Grant, Place
  <2>3. StoresNamed'
    BY <1>2, <2>1, MemoryAdded, UsersStay DEF IInv, StoresNamed
  <2>4. NameOf(c)' = NameOf(c)
    BY DEF NameOf
  <2>5. OwnAccount(c)'
    BY <1>0, <2>1, <2>4 DEF OwnAccount, NameOf
  <2>6. Kept(c)'
    BY <2>1, <2>4, <2>5 DEF Kept, Place
  <2>7. ~InHandler(c)' /\ epoch'[c] <= restarts
    BY <2>1, Counters DEF InHandler
  <2> QED
    BY <2>1, <2>2, <2>3, <2>6, <2>7, OneCall
<1> QED
  BY <1>1, <1>2

LEMMA LoginInMemoryInv ==
  ASSUME NEW c \in Call
  PROVE  IInv /\ LoginInMemory(c) => IInv'
<1> SUFFICES ASSUME IInv, LoginInMemory(c) PROVE IInv'
  OBVIOUS
<1> USE DEF LoginInMemory
<1>0. NameOf(c) \in Name /\ asked[c] \in Request /\ reply[c] = "none" /\ tokens[c] = NoAccount
      /\ pc[c] = "memory" /\ asked' = asked
  BY NameAsked DEF IInv, CallsInOrder, InHandler
<1>1. CASE /\ Fits(memory, c)
           /\ account' = [account EXCEPT ![c] = memory[NameOf(c)]]
           /\ Grant(c, memory[NameOf(c)])
           /\ Answer(c, "logged in", "memory")
  <2>1. /\ \A d \in Call : d # c => Alone(d)
        /\ pc'[c] = "answer" /\ reply'[c] = "logged in" /\ at'[c] = "memory" /\ epoch'[c] = restarts
        /\ account'[c] = memory[NameOf(c)] /\ tokens'[c] = memory[NameOf(c)]
        /\ StoresGrow /\ Forward
    BY <1>0, <1>1 DEF IInv, TypeOK, Answer, Goto, Grant, Alone, StoresGrow, Forward
  <2>2. TypeOK'
    BY <1>0, <1>1 DEF IInv, TypeOK, Answer, Goto, Grant, Place
  <2>3. StoresNamed'
    BY <2>1, UsersStay, MemoryStays DEF IInv, StoresNamed
  <2>4. NameOf(c)' = NameOf(c) /\ memory' = memory
    BY DEF NameOf
  <2>5. OwnAccount(c)'
    BY <1>0, <1>1, <2>1, FitsOwn
  <2>6. Kept(c)'
    BY <2>1, <2>4, <2>5 DEF Kept, Place
  <2>7. ~InHandler(c)' /\ epoch'[c] <= restarts
    BY <2>1, Counters DEF InHandler
  <2> QED
    BY <1>0, <2>1, <2>2, <2>3, <2>4, <2>6, <2>7, OneCall
<1>2. CASE /\ ~Fits(memory, c)
           /\ Answer(c, "invalid", "memory")
           /\ UNCHANGED <<account, tokens>>
  <2>1. /\ \A d \in Call : d # c => Alone(d)
        /\ pc'[c] = "answer" /\ reply'[c] = "invalid" /\ epoch'[c] = restarts /\ tokens'[c] = NoAccount
        /\ at'[c] = "memory"
        /\ StoresGrow /\ Forward
    BY <1>0, <1>2 DEF IInv, TypeOK, Answer, Goto, Alone, StoresGrow, Forward
  <2>2. TypeOK'
    BY <1>2 DEF IInv, TypeOK, Answer, Goto, Place
  <2>3. StoresNamed'
    BY <2>1, UsersStay, MemoryStays DEF IInv, StoresNamed
  <2>4. ~InHandler(c)' /\ ~Granted(c)' /\ epoch'[c] <= restarts
    BY <2>1, Counters DEF InHandler, Granted
  <2>5. \A b \in before[c] : Reason(b, c)'
    <3> TAKE b \in before[c]
    <3>1. b \in Call /\ pc[b] = "done" /\ b # c
      BY <1>0 DEF IInv, TypeOK, CallsInOrder
    <3> QED
      BY <1>0, <1>2, <2>1, <3>1, NoneFits DEF Place
  <2> QED
    BY <1>0, <2>1, <2>2, <2>3, <2>4, <2>5, OneCall
<1> QED
  BY <1>1, <1>2

LEMMA DeliverInv ==
  ASSUME NEW c \in Call
  PROVE  IInv /\ Deliver(c) => IInv'
<1> SUFFICES ASSUME IInv, Deliver(c) PROVE IInv'
  OBVIOUS
<1> USE DEF Deliver, Goto, storeVars
<1>1. /\ \A d \in Call : d # c => Alone(d)
      /\ pc'[c] = "done" /\ account'[c] = account[c] /\ reply'[c] = reply[c]
      /\ StoresGrow /\ Forward
  BY DEF IInv, TypeOK, Alone, StoresGrow, Forward
<1>2. TypeOK'
  BY DEF IInv, TypeOK
<1>3. StoresNamed'
  BY <1>1, UsersStay, MemoryStays DEF IInv, StoresNamed
<1>4. ~InHandler(c)' /\ epoch'[c] <= restarts
  BY <1>1 DEF IInv, InHandler, CallsInOrder
<1>5. Granted(c)' => Kept(c)'
  <2> SUFFICES ASSUME Granted(c) PROVE Kept(c)'
    BY DEF Granted
  <2>1. Kept(c) /\ OwnAccount(c)
    BY DEF IInv, GrantStays, Kept
  <2>2. OwnAccount(c)' /\ NameOf(c)' = NameOf(c)
    BY <1>1, <2>1, OwnStays
  <2> QED
    BY <1>1, <2>1, <2>2 DEF Kept
<1>6. tokens'[c] # NoAccount => tokens'[c] \in {users'[NameOf(c)], memory'[NameOf(c)]}
  BY DEF IInv, TokensNameAccounts
<1>7. reply'[c] = "invalid" => \A b \in before[c] : Reason(b, c)'
  BY Reasons DEF IInv, TypeOK, Reason, NameOf
<1> QED
  BY <1>1, <1>2, <1>3, <1>4, <1>5, <1>6, <1>7, OneCall

LEMMA LoseReplyInv ==
  ASSUME NEW c \in Call
  PROVE  IInv /\ LoseReply(c) => IInv'
<1> SUFFICES ASSUME IInv, LoseReply(c) PROVE IInv'
  OBVIOUS
<1> USE DEF LoseReply, storeVars
<1>0. faults' \in Nat
  BY Counters DEF Fault
<1>1. /\ \A d \in Call : d # c => Alone(d)
      /\ pc'[c] = "answer" /\ reply'[c] = "broken"
      /\ StoresGrow /\ Forward
  BY DEF IInv, TypeOK, Alone, StoresGrow, Forward
<1>2. TypeOK'
  BY <1>0 DEF IInv, TypeOK
<1>3. StoresNamed'
  BY <1>1, UsersStay, MemoryStays DEF IInv, StoresNamed
<1>4. ~InHandler(c)' /\ ~Granted(c)' /\ epoch'[c] <= restarts
  BY <1>1 DEF IInv, InHandler, Granted, CallsInOrder
<1>5. tokens'[c] # NoAccount => tokens'[c] \in {users'[NameOf(c)], memory'[NameOf(c)]}
  BY DEF IInv, TokensNameAccounts
<1> QED
  BY <1>1, <1>2, <1>3, <1>4, <1>5, OneCall

LEMMA DatabaseFailsInv ==
  ASSUME NEW c \in Call
  PROVE  IInv /\ DatabaseFails(c) => IInv'
<1> SUFFICES ASSUME IInv, DatabaseFails(c) PROVE IInv'
  OBVIOUS
<1> USE DEF DatabaseFails, FallBack, Goto
<1>0. NameOf(c) \in Name /\ reply[c] = "none" /\ tokens[c] = NoAccount /\ epoch[c] <= restarts
      /\ <<c, "table">> \in Account
  BY NameAsked DEF IInv, CallsInOrder, InHandler, Account, Place
<1>f. faults' \in Nat
  BY Counters DEF Fault
<1>1. /\ \A d \in Call : d # c => Alone(d)
      /\ pc'[c] = "memory" /\ reply'[c] = "none" /\ tokens'[c] = NoAccount
      /\ Forward
  BY <1>0 DEF IInv, TypeOK, Alone, Forward
<1>2. TypeOK' /\ StoresGrow /\ Named(users, "table")'
  <2>1. CASE UNCHANGED users
    <3>1. TypeOK' /\ StoresGrow
      BY <1>0, <1>f, <2>1 DEF IInv, TypeOK, StoresGrow
    <3> QED
      BY <1>1, <2>1, <3>1, UsersStay DEF IInv
  <2>2. CASE InsertAllTheSame(c)
    <3>1. TypeOK' /\ StoresGrow
      BY <1>0, <1>f, <2>2 DEF IInv, TypeOK, StoresGrow, InsertAllTheSame, Taken
    <3>2. Named(users, "table")'
      BY <1>1, <2>2, UserAdded DEF IInv, InsertAllTheSame
    <3> QED
      BY <3>1, <3>2
  <2> QED
    BY <2>1, <2>2
<1>3. StoresNamed'
  BY <1>1, <1>2, MemoryStays DEF IInv, StoresNamed
<1>4. ~Granted(c)' /\ epoch'[c] <= restarts
  BY <1>0, <1>1 DEF Granted
<1> QED
  BY <1>1, <1>2, <1>3, <1>4, OneCall

LEMMA ServerRestartInv == IInv /\ ServerRestart => IInv'
<1> SUFFICES ASSUME IInv, ServerRestart PROVE IInv'
  OBVIOUS
<1> USE DEF ServerRestart, ForgetMemory
<1>1. restarts' \in Nat /\ restarts < restarts' /\ \A c \in Call : epoch[c] < restarts'
  <2>1. \A c \in Call : epoch[c] <= restarts /\ epoch[c] \in Nat
    BY DEF IInv, CallsInOrder, TypeOK
  <2> QED
    BY <2>1, Counters
<1>2. \A c \in Call : /\ InHandler(c) => pc'[c] = "answer" /\ reply'[c] = "broken"
                      /\ ~InHandler(c) => pc'[c] = pc[c] /\ reply'[c] = reply[c]
  OBVIOUS
<1>3. Forward /\ \A c \in Call : ~InHandler(c)' /\ tokens'[c] = NoAccount
                               /\ (Granted(c)' \/ reply'[c] = "invalid" => pc'[c] = pc[c] /\ reply'[c] = reply[c])
  BY <1>2 DEF Forward, InHandler, Granted
<1>4. /\ TypeOK' /\ Named(users, "table")'
      /\ \A n \in Name : users[n] # NoAccount => users'[n] = users[n]
  <2>1. CASE UNCHANGED users
    <3>1. TypeOK'
      BY <1>1, <2>1 DEF IInv, TypeOK
    <3> QED
      BY <1>3, <2>1, <3>1, UsersStay DEF IInv
  <2>2. CASE \E c \in Call : InsertAllTheSame(c)
    <3>1. PICK c \in Call : InsertAllTheSame(c)
      BY <2>2
    <3>2. NameOf(c) \in Name /\ <<c, "table">> \in Account /\ pc[c] # "new"
      BY <3>1, NameAsked DEF IInv, InsertAllTheSame, Account, Place
    <3>3. TypeOK'
      BY <1>1, <3>1, <3>2 DEF IInv, TypeOK, InsertAllTheSame
    <3>4. \A n \in Name : users[n] # NoAccount => users'[n] = users[n]
      BY <3>1, <3>2 DEF IInv, TypeOK, InsertAllTheSame, Taken
    <3>5. Named(users, "table")'
      BY <1>3, <3>1, <3>2, UserAdded DEF IInv, InsertAllTheSame
    <3> QED
      BY <3>3, <3>4, <3>5
  <2> QED
    BY <2>1, <2>2
<1>5. CallsInOrder'
  <2> SUFFICES ASSUME NEW c \in Call
               PROVE  /\ pc'[c] # "new" => asked'[c] \in Request
                      /\ pc'[c] = "new" \/ InHandler(c)' => reply'[c] = "none" /\ tokens'[c] = NoAccount
                      /\ epoch'[c] <= restarts'
                      /\ \A d \in before'[c] : pc'[d] = "done"
    BY DEF CallsInOrder
  <2>1. pc'[c] # "new" => asked'[c] \in Request
    BY <1>2 DEF IInv, CallsInOrder, InHandler
  <2>2. pc'[c] = "new" \/ InHandler(c)' => reply'[c] = "none" /\ tokens'[c] = NoAccount
    BY <1>2, <1>3 DEF IInv, CallsInOrder
  <2>3. epoch'[c] <= restarts'
    <3>1. epoch[c] < restarts' /\ epoch[c] \in Nat
      BY <1>1 DEF IInv, TypeOK
    <3> QED
      BY <1>1, <3>1
  <2>4. \A d \in before'[c] : pc'[d] = "done"
    BY <1>3 DEF IInv, CallsInOrder, TypeOK, Forward
  <2> QED
    BY <2>1, <2>2, <2>3, <2>4
<1>6. StoresNamed'
  BY <1>4 DEF StoresNamed, Named
<1>7. FoundStays'
  BY <1>3 DEF FoundStays, InHandler
<1>8. GrantStays'
  <2> SUFFICES ASSUME NEW c \in Call, Granted(c)' PROVE Kept(c)'
    BY DEF GrantStays
  <2>1. Granted(c) /\ pc'[c] = pc[c] /\ reply'[c] = reply[c]
    BY <1>3 DEF Granted
  <2>2. Kept(c) /\ OwnAccount(c) /\ account[c] \in Account /\ pc[c] # "new"
    BY <2>1 DEF IInv, GrantStays, Kept, OwnAccount
  <2>3. OwnAccount(c)' /\ NameOf(c)' = NameOf(c)
    BY <1>3, <2>2, OwnStays
  <2>4. users[NameOf(c)] = account[c] => users'[NameOf(c)] = account[c]
    BY <1>4, <2>2, NameAsked, AuthAssumption DEF IInv
  <2>5. epoch'[c] # restarts'
    <3>1. epoch[c] < restarts' /\ epoch[c] \in Nat
      BY <1>1 DEF IInv, TypeOK
    <3> QED
      BY <1>1, <3>1
  <2> QED
    BY <2>1, <2>2, <2>3, <2>4, <2>5 DEF Kept
<1>9. TokensNameAccounts'
  BY <1>3 DEF TokensNameAccounts
<1>10. RefusedWithReason'
  <2> SUFFICES ASSUME NEW b \in Call, NEW d \in Call, reply'[d] = "invalid", b \in before[d]
               PROVE  Reason(b, d)'
    BY Reasons
  <2>1. reply[d] = "invalid" /\ pc[b] = "done" /\ reply'[b] = reply[b]
    BY <1>2, <1>3 DEF IInv, CallsInOrder, InHandler
  <2>2. Reason(b, d)
    BY <2>1, Reasons DEF IInv
  <2> QED
    BY <2>1, <2>2 DEF Reason, NameOf
<1> QED
  BY <1>4, <1>5, <1>6, <1>7, <1>8, <1>9, <1>10 DEF IInv

LEMMA StutterInv == IInv /\ UNCHANGED authVars => IInv'
<1> SUFFICES ASSUME IInv, UNCHANGED authVars PROVE IInv'
  OBVIOUS
<1> USE DEF IInv, authVars, storeVars, callVars
<1>1. TypeOK'
  BY DEF TypeOK
<1>2. CallsInOrder'
  BY DEF CallsInOrder, InHandler
<1>3. StoresNamed'
  BY DEF StoresNamed, Named, NameOf
<1>4. FoundStays'
  BY DEF FoundStays, Found, OwnAccount, NameOf, Registers
<1>5. GrantStays'
  BY DEF GrantStays, Granted, Kept, OwnAccount, NameOf
<1>6. TokensNameAccounts' /\ RefusedWithReason'
  BY DEF TokensNameAccounts, RefusedWithReason, NameOf
<1> QED
  BY <1>1, <1>2, <1>3, <1>4, <1>5, <1>6

-----------------------------------------------------------------------------
LEMMA StepInv == IInv /\ [Next]_authVars => IInv'
<1> SUFFICES ASSUME IInv, [Next]_authVars PROVE IInv'
  OBVIOUS
<1>1. ASSUME NEW c \in Call, NEW kind \in Kind, NEW n \in Name, NEW p \in Password, Submit(c, kind, n, p)
      PROVE  IInv'
  BY <1>1, SubmitInv
<1>2. ASSUME NEW c \in Call, Handle(c)
      PROVE  IInv'
  BY <1>2, RefuseShortInv, InsertUserInv, SelectUserInv, TouchUserInv, IssueTokenInv, RegisterInMemoryInv,
     LoginInMemoryInv DEF Handle
<1>3. ASSUME NEW c \in Call, Deliver(c) \/ DatabaseFails(c) \/ LoseReply(c)
      PROVE  IInv'
  BY <1>3, DeliverInv, DatabaseFailsInv, LoseReplyInv
<1> QED
  BY <1>1, <1>2, <1>3, ServerRestartInv, StutterInv DEF Next

\* A name that is taken keeps its account and what a call has found there
\* is there when it answers: inductive, over every step.
THEOREM Invariant == Spec => []IInv
  BY InitInv, StepInv, PTL DEF Spec

\* Every variable keeps its type, whatever the calls and their order.
THEOREM TypeCorrect == Spec => []TypeOK
<1>1. IInv => TypeOK
  BY DEF IInv
<1> QED
  BY <1>1, Invariant, PTL

\* However registrations, logins, failures and restarts interleave, an
\* account a user was told of stays where it was made.
THEOREM AccountsStayThere == Spec => []AccountsStay
<1>1. IInv => AccountsStay
  <2> SUFFICES ASSUME IInv, NEW c \in Call, reply[c] = "registered"
               PROVE  /\ at[c] = "table" => users[NameOf(c)] = <<c, "table">>
                      /\ at[c] = "memory" /\ epoch[c] = restarts => memory[NameOf(c)] = <<c, "memory">>
    BY DEF AccountsStay
  <2>1. Kept(c) /\ account[c] = <<c, at[c]>>
    BY DEF IInv, GrantStays, Granted, Kept
  <2> QED
    BY <2>1 DEF Kept
<1> QED
  BY <1>1, Invariant, PTL

\* A token that was given works until the server restarts, for an account
\* with the name and the password that were asked for, and not longer than
\* the account is there.
THEOREM TokensAlwaysWork == Spec => []TokensWork
<1>1. IInv => TokensWork
  BY DEF IInv, GrantStays, Kept, OwnAccount, TokensWork, TokensStay
<1> QED
  BY <1>1, Invariant, PTL

\* Who was registered is refused only when the registration and the login
\* were decided in different places, or after a restart.
THEOREM RefusalsHaveReasons == Spec => []RefusedWithReason
<1>1. IInv => RefusedWithReason
  BY DEF IInv
<1> QED
  BY <1>1, Invariant, PTL

-----------------------------------------------------------------------------
(***************************************************************************)
(* The service implements AtomicAccounts.  A registration or a login in    *)
(* the table takes effect when its handler comes to the token, one in      *)
(* memory under the mutex; what happens between those steps and the answer *)
(* is not seen from outside.                                               *)
(***************************************************************************)
\* A call asks for something when it is made, its password has been looked at
\* when the statements are over, and it has an answer when its handler has ended.
CallsAnswered ==
  \A c \in Call :
    /\ pc[c] = "new" => asked[c] = NoRequest
    /\ pc[c] = "new" \/ InHandler(c) => at[c] = "none"
    /\ pc[c] \in {"touch", "token", "memory"} => ~TooShort(c)
    /\ pc[c] \in {"answer", "done"} => reply[c] # "none"

LEMMA AnsweredInit == Init => CallsAnswered
BY DEF Init, CallsAnswered, InHandler, TooShort, Registers

\* A step of the handler of c that answers, and one that does not.
LEMMA AnswerAnswers ==
  ASSUME TypeOK, CallsAnswered, NEW c \in Call, NEW text, NEW place, text # "none",
         Answer(c, text, place), asked' = asked
  PROVE  CallsAnswered'
BY DEF TypeOK, CallsAnswered, InHandler, Answer, Goto, TooShort, Registers

LEMMA OnTheWayStays ==
  ASSUME TypeOK, CallsAnswered, NEW c \in Call, InHandler(c), ~TooShort(c),
         NEW label \in {"touch", "token", "memory"},
         Goto(c, label), UNCHANGED <<asked, reply, at>>
  PROVE  CallsAnswered'
BY DEF TypeOK, CallsAnswered, InHandler, Goto, TooShort, Registers

LEMMA AnsweredNext ==
  ASSUME TypeOK, CallsAnswered, [Next]_authVars
  PROVE  CallsAnswered'
<1>1. ASSUME NEW c \in Call, NEW kind \in Kind, NEW n \in Name, NEW p \in Password, Submit(c, kind, n, p)
      PROVE  CallsAnswered'
  BY <1>1 DEF Submit, Goto, TypeOK, CallsAnswered, InHandler, TooShort, Registers
<1>2. ASSUME NEW c \in Call, RefuseShort(c)
      PROVE  CallsAnswered'
  BY <1>2, AnswerAnswers DEF RefuseShort
<1>3. ASSUME NEW c \in Call, InsertUser(c) \/ SelectUser(c)
      PROVE  CallsAnswered'
  <2>1. InHandler(c) /\ ~TooShort(c) /\ asked' = asked
    BY <1>3 DEF InsertUser, SelectUser, InHandler, TooShort
  <2>2. \/ Answer(c, "taken", "table")
        \/ Answer(c, "invalid", "table")
        \/ (Goto(c, "token") \/ Goto(c, "touch")) /\ UNCHANGED <<reply, at>>
    BY <1>3 DEF InsertUser, SelectUser
  <2> QED
    BY <2>1, <2>2, AnswerAnswers, OnTheWayStays
<1>4. ASSUME NEW c \in Call, TouchUser(c)
      PROVE  CallsAnswered'
  BY <1>4, OnTheWayStays DEF TouchUser, InHandler, CallsAnswered
<1>5. ASSUME NEW c \in Call, IssueToken(c)
      PROVE  CallsAnswered'
  <2>1. Answer(c, "registered", "table") \/ Answer(c, "logged in", "table")
    BY <1>5 DEF IssueToken
  <2> QED
    BY <1>5, <2>1, AnswerAnswers DEF IssueToken
<1>6. ASSUME NEW c \in Call, RegisterInMemory(c) \/ LoginInMemory(c)
      PROVE  CallsAnswered'
  <2>1. asked' = asked
    BY <1>6 DEF RegisterInMemory, LoginInMemory
  <2>2. \E text \in {"taken", "registered", "logged in", "invalid"} : Answer(c, text, "memory")
    BY <1>6 DEF RegisterInMemory, LoginInMemory
  <2> QED
    BY <2>1, <2>2, AnswerAnswers
<1>7. ASSUME NEW c \in Call, Deliver(c) \/ LoseReply(c)
      PROVE  CallsAnswered'
  BY <1>7 DEF Deliver, LoseReply, Goto, TypeOK, CallsAnswered, InHandler, TooShort, Registers
<1>8. ASSUME NEW c \in Call, DatabaseFails(c)
      PROVE  CallsAnswered'
  BY <1>8, OnTheWayStays DEF DatabaseFails, FallBack, InHandler
<1>9. CASE ServerRestart
  BY <1>9 DEF ServerRestart, TypeOK, CallsAnswered, InHandler, TooShort, Registers
<1>10. CASE UNCHANGED authVars
  BY <1>10 DEF authVars, callVars, CallsAnswered, InHandler, TooShort, Registers
<1> QED
  BY <1>1, <1>2, <1>3, <1>4, <1>5, <1>6, <1>7, <1>8, <1>9, <1>10 DEF Next, Handle

AInv == IInv /\ CallsAnswered

Seen == <<Store, Tokens, asked, Outcome, Told>>

\* A step of one call, seen from outside.
LEMMA OneCallSeen ==
  ASSUME NEW c \in Call, \A d \in Call : d # c => Alone(d)
  PROVE  /\ Outcome' = [Outcome EXCEPT ![c] = OutcomeOf(c)']
         /\ Tokens' = [Tokens EXCEPT ![c] = TokenOf(c)']
         /\ (pc[c] = "done" <=> pc'[c] = "done") => Told' = Told
         /\ pc'[c] = "done" => Told' = Told \cup {c}
<1>1. ASSUME NEW d \in Call, d # c
      PROVE  OutcomeOf(d)' = OutcomeOf(d) /\ TokenOf(d)' = TokenOf(d) /\ pc'[d] = pc[d]
  BY <1>1 DEF Alone, OutcomeOf, TokenOf, Decided, Registers
<1>2. Outcome' = [d \in Call |-> OutcomeOf(d)'] /\ Tokens' = [d \in Call |-> TokenOf(d)']
  BY DEF Outcome, Tokens
<1>3. [Outcome EXCEPT ![c] = OutcomeOf(c)'] = [d \in Call |-> OutcomeOf(d)']
  BY <1>1 DEF Outcome
<1>4. [Tokens EXCEPT ![c] = TokenOf(c)'] = [d \in Call |-> TokenOf(d)']
  BY <1>1 DEF Tokens
<1>5. Told' = {d \in Call : pc'[d] = "done"}
  BY DEF Told
<1> QED
  BY <1>1, <1>2, <1>3, <1>4, <1>5 DEF Told

LEMMA OneCallUnseen ==
  ASSUME NEW c \in Call, \A d \in Call : d # c => Alone(d),
         OutcomeOf(c)' = OutcomeOf(c), TokenOf(c)' = TokenOf(c), pc[c] = "done" <=> pc'[c] = "done"
  PROVE  UNCHANGED <<Tokens, Outcome, Told>>
<1>1. [Outcome EXCEPT ![c] = OutcomeOf(c)] = Outcome /\ [Tokens EXCEPT ![c] = TokenOf(c)] = Tokens
  BY DEF Outcome, Tokens
<1> QED
  BY <1>1, OneCallSeen

\* A place of the store, and one that gets an account.
LEMMA StoreSeen ==
  /\ Store["table"] = users
  /\ Store["memory"] = memory
  /\ UNCHANGED <<users, memory>> => UNCHANGED Store
BY DEF Store, Place

LEMMA PutSeen ==
  ASSUME NEW n, NEW a
  PROVE  /\ users' = [users EXCEPT ![n] = a] /\ memory' = memory =>
              Store' = [Store EXCEPT !["table"][n] = a]
         /\ memory' = [memory EXCEPT ![n] = a] /\ users' = users =>
              Store' = [Store EXCEPT !["memory"][n] = a]
<1>1. "table" # "memory"
  OBVIOUS
<1>2. [Store EXCEPT !["table"][n] = a]
        = [place \in Place |-> IF place = "table" THEN [users EXCEPT ![n] = a] ELSE memory]
  BY StoreSeen DEF Store, Place
<1>3. [Store EXCEPT !["memory"][n] = a]
        = [place \in Place |-> IF place = "table" THEN users ELSE [memory EXCEPT ![n] = a]]
  BY StoreSeen DEF Store, Place
<1>4. Store' = [place \in Place |-> IF place = "table" THEN users' ELSE memory']
  BY DEF Store
<1> QED
  BY <1>2, <1>3, <1>4

\* A call whose handler has not come to the token.
LEMMA UndecidedSeen ==
  ASSUME AInv, NEW c \in Call, InHandler(c), ~Decided(c)
  PROVE  /\ Outcome[c] = Atomic!Undecided
         /\ Tokens[c] = NoAccount /\ tokens[c] = NoAccount
         /\ asked[c] # NoRequest
         /\ Atomic!Asks(c, "register") <=> Registers(c)
         /\ Atomic!Asks(c, "login") <=> ~Registers(c)
         /\ Atomic!TooShort(c) <=> asked[c].password \in Short
         /\ Atomic!Entry(c, "table") = users[NameOf(c)]
         /\ Atomic!Entry(c, "memory") = memory[NameOf(c)]
         /\ Atomic!Present(c, "table") <=> Taken(users, NameOf(c))
         /\ Atomic!Present(c, "memory") <=> Taken(memory, NameOf(c))
         /\ Atomic!Fits(c, "table") <=> Fits(users, c)
         /\ Atomic!Fits(c, "memory") <=> Fits(memory, c)
<1>1. reply[c] = "none" /\ tokens[c] = NoAccount /\ at[c] = "none"
  BY DEF AInv, IInv, CallsInOrder, CallsAnswered
<1>2. asked[c] \in Request /\ asked[c] # NoRequest
  BY AuthAssumption DEF AInv, IInv, CallsInOrder, InHandler
<1>3. asked[c].kind \in Kind
  BY <1>2 DEF Request
<1>4. Outcome[c] = Atomic!Undecided
  BY <1>1 DEF Outcome, OutcomeOf, Atomic!Undecided, Atomic!Result
<1>5. Tokens[c] = NoAccount
  BY <1>1 DEF Tokens, TokenOf
<1>6. Atomic!Entry(c, "table") = users[NameOf(c)] /\ Atomic!Entry(c, "memory") = memory[NameOf(c)]
  BY StoreSeen DEF Atomic!Entry, NameOf
<1>7. /\ Atomic!Asks(c, "register") <=> Registers(c)
      /\ Atomic!Asks(c, "login") <=> ~Registers(c)
  BY <1>2, <1>3 DEF Atomic!Asks, Registers, Kind
<1>8. Atomic!TooShort(c) <=> asked[c].password \in Short
  BY DEF Atomic!TooShort
<1>9. /\ Atomic!Present(c, "table") <=> Taken(users, NameOf(c))
      /\ Atomic!Present(c, "memory") <=> Taken(memory, NameOf(c))
  BY <1>6 DEF Atomic!Present, Taken
<1> QED
  BY <1>1, <1>2, <1>4, <1>5, <1>6, <1>7, <1>8, <1>9 DEF Atomic!Fits, Fits

\* A step that answers one call, or goes on with it, leaves the others alone.
LEMMA OthersAlone ==
  ASSUME TypeOK, NEW c \in Call, asked' = asked,
         \/ \E text, place : Answer(c, text, place)
         \/ (\E label : Goto(c, label)) /\ UNCHANGED <<reply, at, epoch>>,
         tokens' = tokens \/ \E a : Grant(c, a),
         account' = account \/ \E a : account' = [account EXCEPT ![c] = a]
  PROVE  \A d \in Call : d # c => Alone(d)
<1> SUFFICES ASSUME NEW d \in Call, d # c PROVE Alone(d)
  OBVIOUS
<1>1. tokens'[d] = tokens[d]
  BY DEF TypeOK, Grant
<1>2. account'[d] = account[d]
  BY DEF TypeOK
<1>3. pc'[d] = pc[d] /\ reply'[d] = reply[d] /\ at'[d] = at[d] /\ epoch'[d] = epoch[d]
  BY DEF TypeOK, Answer, Goto
<1> QED
  BY <1>1, <1>2, <1>3 DEF Alone

\* A handler that answers and has not come to a token before.
LEMMA AnswerIsDecision ==
  ASSUME AInv, NEW c \in Call, InHandler(c), ~Decided(c), NEW text, NEW place, text # "broken",
         Answer(c, text, place), asked' = asked, \A d \in Call : d # c => Alone(d)
  PROVE  /\ Atomic!Decide(c, text, place)
         /\ Tokens' = [Tokens EXCEPT ![c] = tokens'[c]]
         /\ tokens' = tokens => UNCHANGED Tokens
<1>1. Outcome[c] = Atomic!Undecided /\ Tokens[c] = NoAccount /\ tokens[c] = NoAccount
  BY UndecidedSeen
<1>2. pc'[c] = "answer" /\ reply'[c] = text /\ at'[c] = place
  BY DEF AInv, IInv, TypeOK, Answer, Goto
<1>3. OutcomeOf(c)' = Atomic!Result(text, place) /\ TokenOf(c)' = tokens'[c]
  BY <1>2 DEF OutcomeOf, TokenOf, Decided, Atomic!Result
<1>4. Outcome' = [Outcome EXCEPT ![c] = Atomic!Result(text, place)]
  BY <1>3, OneCallSeen
<1>5. Tokens' = [Tokens EXCEPT ![c] = tokens'[c]]
  BY <1>3, OneCallSeen
<1>6. Told' = Told
  BY <1>2, OneCallSeen DEF InHandler
<1>7. tokens' = tokens => [Tokens EXCEPT ![c] = tokens'[c]] = Tokens
  BY <1>1 DEF Tokens
<1> QED
  BY <1>1, <1>4, <1>5, <1>6, <1>7 DEF Atomic!Decide

LEMMA SubmitSeen ==
  ASSUME AInv, NEW c \in Call, NEW kind \in Kind, NEW n \in Name, NEW p \in Password, Submit(c, kind, n, p)
  PROVE  Atomic!Next
<1>1. asked[c] = NoRequest /\ UNCHANGED Store
  BY StoreSeen DEF AInv, CallsAnswered, Submit, storeVars
<1>2. pc'[c] = "statement" /\ \A d \in Call : d # c => Alone(d)
  BY DEF AInv, IInv, TypeOK, Submit, Goto, Alone, storeVars
<1>3. OutcomeOf(c)' = OutcomeOf(c) /\ TokenOf(c)' = TokenOf(c)
  BY <1>2 DEF Submit, OutcomeOf, TokenOf, Decided, storeVars
<1>4. UNCHANGED <<Tokens, Outcome, Told>>
  BY <1>2, <1>3, OneCallUnseen DEF Submit
<1>5. Atomic!Ask(c, kind, n, p)
  BY <1>1, <1>4 DEF Submit, Atomic!Ask
<1> QED
  BY <1>5 DEF Atomic!Next, Atomic!Kind, Kind

LEMMA RefuseShortSeen ==
  ASSUME AInv, NEW c \in Call, RefuseShort(c)
  PROVE  Atomic!Next
<1>1. InHandler(c) /\ ~Decided(c) /\ Registers(c) /\ asked[c].password \in Short
  BY DEF RefuseShort, InHandler, Decided, TooShort
<1>2. \A d \in Call : d # c => Alone(d)
  BY OthersAlone DEF AInv, IInv, RefuseShort, storeVars
<1>3. Atomic!Decide(c, "short", "none") /\ UNCHANGED Tokens
  BY <1>1, <1>2, AnswerIsDecision DEF RefuseShort, storeVars
<1>4. UNCHANGED Store
  BY StoreSeen DEF RefuseShort, storeVars
<1>5. Atomic!Refuse(c)
  BY <1>1, <1>3, <1>4, UndecidedSeen DEF Atomic!Refuse
<1> QED
  BY <1>5 DEF Atomic!Next

LEMMA InsertUserSeen ==
  ASSUME AInv, NEW c \in Call, InsertUser(c)
  PROVE  Atomic!Next
<1>1. InHandler(c) /\ ~Decided(c) /\ Registers(c) /\ asked[c].password \notin Short
  BY DEF InsertUser, InHandler, Decided, TooShort
<1>2. \A d \in Call : d # c => Alone(d)
  <2>1. CASE Taken(users, NameOf(c))
    BY <2>1, OthersAlone DEF AInv, IInv, InsertUser
  <2>2. CASE ~Taken(users, NameOf(c))
    BY <2>2, OthersAlone DEF AInv, IInv, InsertUser
  <2> QED
    BY <2>1, <2>2
<1>3. CASE Taken(users, NameOf(c))
  <2>1. Answer(c, "taken", "table") /\ UNCHANGED <<users, memory, tokens>>
    BY <1>3 DEF InsertUser
  <2>2. Atomic!Decide(c, "taken", "table") /\ UNCHANGED Tokens
    BY <1>1, <1>2, <2>1, AnswerIsDecision DEF InsertUser
  <2>3. Atomic!Refuse(c)
    BY <1>1, <1>3, <2>1, <2>2, StoreSeen, UndecidedSeen DEF Atomic!Refuse, Atomic!Place
  <2> QED
    BY <2>3 DEF Atomic!Next
<1>4. CASE ~Taken(users, NameOf(c))
  <2>1. /\ users' = [users EXCEPT ![NameOf(c)] = <<c, "table">>]
        /\ account'[c] = <<c, "table">> /\ pc'[c] = "token"
    BY <1>4 DEF InsertUser, AInv, IInv, TypeOK, Goto
  <2>2. Store' = [Store EXCEPT !["table"][asked[c].name] = <<c, "table">>]
    BY <2>1, PutSeen DEF InsertUser, NameOf
  <2>3. OutcomeOf(c)' = Atomic!Result("registered", "table") /\ TokenOf(c)' = <<c, "table">>
    BY <1>1, <2>1 DEF InsertUser, OutcomeOf, TokenOf, Decided, Registers, Atomic!Result
  <2>4. /\ Outcome' = [Outcome EXCEPT ![c] = Atomic!Result("registered", "table")]
        /\ Tokens' = [Tokens EXCEPT ![c] = <<c, "table">>]
        /\ Told' = Told
    BY <1>2, <2>1, <2>3, OneCallSeen DEF InsertUser
  <2>5. Atomic!Decide(c, "registered", "table")
    BY <1>1, <2>4, UndecidedSeen DEF InsertUser, Atomic!Decide
  <2>6. Atomic!Register(c, "table")
    BY <1>1, <1>4, <2>2, <2>4, <2>5, UndecidedSeen DEF Atomic!Register, Atomic!Put
  <2> QED
    BY <2>6 DEF Atomic!Next, Atomic!Place
<1> QED
  BY <1>3, <1>4

LEMMA SelectUserSeen ==
  ASSUME AInv, NEW c \in Call, SelectUser(c)
  PROVE  Atomic!Next \/ UNCHANGED Seen
<1>1. InHandler(c) /\ ~Decided(c) /\ ~Registers(c) /\ pc[c] = "statement"
  BY DEF SelectUser, InHandler, Decided
<1>2. \A d \in Call : d # c => Alone(d)
  <2>1. CASE Fits(users, c)
    BY <2>1, OthersAlone DEF AInv, IInv, SelectUser, storeVars
  <2>2. CASE ~Fits(users, c)
    BY <2>2, OthersAlone DEF AInv, IInv, SelectUser, storeVars
  <2> QED
    BY <2>1, <2>2
<1>3. UNCHANGED Store /\ asked' = asked
  BY StoreSeen DEF SelectUser, storeVars
<1>4. CASE Fits(users, c)
  <2>1. pc'[c] = "touch"
    BY <1>4 DEF SelectUser, AInv, IInv, TypeOK, Goto
  <2>2. OutcomeOf(c)' = OutcomeOf(c) /\ TokenOf(c)' = TokenOf(c)
    BY <1>1, <1>4, <2>1 DEF SelectUser, OutcomeOf, TokenOf, Decided, storeVars
  <2> QED
    BY <1>1, <1>2, <1>3, <2>1, <2>2, OneCallUnseen DEF Seen
<1>5. CASE ~Fits(users, c)
  <2>1. Atomic!Decide(c, "invalid", "table") /\ UNCHANGED Tokens
    BY <1>1, <1>2, <1>5, AnswerIsDecision DEF SelectUser, storeVars
  <2>2. Atomic!Refuse(c)
    BY <1>1, <1>3, <1>5, <2>1, UndecidedSeen DEF Atomic!Refuse, Atomic!Place
  <2> QED
    BY <2>2 DEF Atomic!Next
<1> QED
  BY <1>4, <1>5

\* What was found is still there: a login takes effect here.
LEMMA TouchUserSeen ==
  ASSUME AInv, NEW c \in Call, TouchUser(c)
  PROVE  Atomic!Next
<1>1. InHandler(c) /\ ~Decided(c) /\ pc'[c] = "token" /\ pc[c] = "touch"
  BY DEF TouchUser, InHandler, Decided, AInv, IInv, TypeOK, Goto
<1>2. \A d \in Call : d # c => Alone(d)
  BY OthersAlone DEF AInv, IInv, TouchUser, storeVars
<1>3. Found(c) /\ ~Registers(c)
  BY <1>1 DEF AInv, IInv, FoundStays, Found
<1>4. Fits(users, c) /\ users[NameOf(c)] = account[c]
  BY <1>3, AuthAssumption DEF Found, OwnAccount, Fits, Taken
<1>5. OutcomeOf(c)' = Atomic!Result("logged in", "table") /\ TokenOf(c)' = account[c]
  BY <1>1, <1>3 DEF TouchUser, OutcomeOf, TokenOf, Decided, Registers, Atomic!Result
<1>6. /\ Outcome' = [Outcome EXCEPT ![c] = Atomic!Result("logged in", "table")]
      /\ Tokens' = [Tokens EXCEPT ![c] = account[c]]
      /\ Told' = Told
  BY <1>1, <1>2, <1>5, OneCallSeen
<1>7. Atomic!Decide(c, "logged in", "table")
  BY <1>1, <1>6, UndecidedSeen DEF TouchUser, Atomic!Decide
<1>8. UNCHANGED Store
  BY StoreSeen DEF TouchUser, storeVars
<1>9. Atomic!LogIn(c, "table")
  BY <1>1, <1>3, <1>4, <1>6, <1>7, <1>8, UndecidedSeen DEF Atomic!LogIn
<1> QED
  BY <1>9 DEF Atomic!Next, Atomic!Place

LEMMA IssueTokenSeen ==
  ASSUME AInv, NEW c \in Call, IssueToken(c)
  PROVE  UNCHANGED Seen
<1>1. /\ pc[c] = "token" /\ pc'[c] = "answer" /\ tokens'[c] = account[c] /\ asked' = asked
      /\ reply'[c] = IF Registers(c) THEN "registered" ELSE "logged in"
      /\ at'[c] = "table"
  BY DEF IssueToken, Answer, Goto, Grant, AInv, IInv, TypeOK
<1>2. \A d \in Call : d # c => Alone(d)
  BY OthersAlone DEF AInv, IInv, IssueToken
<1>3. OutcomeOf(c)' = OutcomeOf(c) /\ TokenOf(c)' = TokenOf(c)
  BY <1>1 DEF OutcomeOf, TokenOf, Decided, Registers
<1>4. UNCHANGED Store
  BY StoreSeen DEF IssueToken
<1> QED
  BY <1>1, <1>2, <1>3, <1>4, OneCallUnseen DEF Seen

LEMMA RegisterInMemorySeen ==
  ASSUME AInv, NEW c \in Call, RegisterInMemory(c)
  PROVE  Atomic!Next
<1>1. InHandler(c) /\ ~Decided(c) /\ Registers(c) /\ asked' = asked /\ asked[c].password \notin Short
  BY DEF RegisterInMemory, InHandler, Decided, AInv, CallsAnswered, TooShort
<1>2. \A d \in Call : d # c => Alone(d)
  <2>1. CASE Taken(memory, NameOf(c))
    BY <2>1, OthersAlone DEF AInv, IInv, RegisterInMemory
  <2>2. CASE ~Taken(memory, NameOf(c))
    BY <2>2, OthersAlone DEF AInv, IInv, RegisterInMemory
  <2> QED
    BY <2>1, <2>2
<1>3. CASE Taken(memory, NameOf(c))
  <2>1. Atomic!Decide(c, "taken", "memory") /\ UNCHANGED <<Tokens, Store>>
    BY <1>1, <1>2, <1>3, AnswerIsDecision, StoreSeen DEF RegisterInMemory
  <2>2. Atomic!Refuse(c)
    BY <1>1, <1>3, <2>1, UndecidedSeen DEF Atomic!Refuse, Atomic!Place
  <2> QED
    BY <2>2 DEF Atomic!Next
<1>4. CASE ~Taken(memory, NameOf(c))
  <2>1. /\ memory' = [memory EXCEPT ![NameOf(c)] = <<c, "memory">>] /\ users' = users
        /\ Answer(c, "registered", "memory") /\ tokens'[c] = <<c, "memory">>
    BY <1>4 DEF RegisterInMemory, AInv, IInv, TypeOK, Grant
  <2>2. Store' = [Store EXCEPT !["memory"][asked[c].name] = <<c, "memory">>]
    BY <2>1, PutSeen DEF NameOf
  <2>3. Atomic!Decide(c, "registered", "memory") /\ Tokens' = [Tokens EXCEPT ![c] = <<c, "memory">>]
    BY <1>1, <1>2, <2>1, AnswerIsDecision
  <2>4. Atomic!Register(c, "memory")
    BY <1>1, <1>4, <2>2, <2>3, UndecidedSeen DEF Atomic!Register, Atomic!Put
  <2> QED
    BY <2>4 DEF Atomic!Next, Atomic!Place
<1> QED
  BY <1>3, <1>4

LEMMA LoginInMemorySeen ==
  ASSUME AInv, NEW c \in Call, LoginInMemory(c)
  PROVE  Atomic!Next
<1>1. InHandler(c) /\ ~Decided(c) /\ ~Registers(c) /\ asked' = asked /\ UNCHANGED Store
  BY StoreSeen DEF LoginInMemory, InHandler, Decided
<1>2. \A d \in Call : d # c => Alone(d)
  <2>1. CASE Fits(memory, c)
    BY <2>1, OthersAlone DEF AInv, IInv, LoginInMemory
  <2>2. CASE ~Fits(memory, c)
    BY <2>2, OthersAlone DEF AInv, IInv, LoginInMemory
  <2> QED
    BY <2>1, <2>2
<1>3. CASE ~Fits(memory, c)
  <2>1. Atomic!Decide(c, "invalid", "memory") /\ UNCHANGED Tokens
    BY <1>1, <1>2, <1>3, AnswerIsDecision DEF LoginInMemory
  <2>2. Atomic!Refuse(c)
    BY <1>1, <1>3, <2>1, UndecidedSeen DEF Atomic!Refuse, Atomic!Place
  <2> QED
    BY <2>2 DEF Atomic!Next
<1>4. CASE Fits(memory, c)
  <2>1. Answer(c, "logged in", "memory") /\ tokens'[c] = memory[NameOf(c)]
    BY <1>4 DEF LoginInMemory, AInv, IInv, TypeOK, Grant
  <2>2. Atomic!Decide(c, "logged in", "memory") /\ Tokens' = [Tokens EXCEPT ![c] = memory[NameOf(c)]]
    BY <1>1, <1>2, <2>1, AnswerIsDecision
  <2>3. Atomic!LogIn(c, "memory")
    BY <1>1, <1>4, <2>2, UndecidedSeen DEF Atomic!LogIn
  <2> QED
    BY <2>3 DEF Atomic!Next, Atomic!Place
<1> QED
  BY <1>3, <1>4

LEMMA DeliverSeen ==
  ASSUME AInv, NEW c \in Call, Deliver(c)
  PROVE  Atomic!Next
<1>1. pc[c] = "answer" /\ pc'[c] = "done" /\ reply[c] # "none"
  BY DEF Deliver, Goto, AInv, IInv, TypeOK, CallsAnswered
<1>2. \A d \in Call : d # c => Alone(d)
  BY DEF AInv, IInv, TypeOK, Deliver, Goto, Alone, storeVars
<1>3. OutcomeOf(c)' = OutcomeOf(c) /\ TokenOf(c)' = TokenOf(c)
  BY <1>1 DEF Deliver, OutcomeOf, TokenOf, Decided, storeVars
<1>4. [Outcome EXCEPT ![c] = OutcomeOf(c)] = Outcome /\ [Tokens EXCEPT ![c] = TokenOf(c)] = Tokens
  BY DEF Outcome, Tokens
<1>5. UNCHANGED <<Tokens, Outcome>> /\ Told' = Told \cup {c}
  BY <1>1, <1>2, <1>3, <1>4, OneCallSeen
<1>6. Outcome[c] # Atomic!Undecided
  BY <1>1 DEF Outcome, OutcomeOf, Decided, Atomic!Undecided, Atomic!Result
<1>7. asked' = asked /\ UNCHANGED Store
  BY StoreSeen DEF Deliver, storeVars
<1>8. Atomic!Tell(c)
  BY <1>5, <1>6, <1>7 DEF Atomic!Tell
<1> QED
  BY <1>8 DEF Atomic!Next

LEMMA LoseReplySeen ==
  ASSUME AInv, NEW c \in Call, LoseReply(c)
  PROVE  Atomic!Next
<1>1. pc[c] = "answer" /\ pc' = pc /\ reply'[c] = "broken"
  BY DEF LoseReply, AInv, IInv, TypeOK
<1>2. \A d \in Call : d # c => Alone(d)
  BY DEF AInv, IInv, TypeOK, LoseReply, Alone, storeVars
<1>3. OutcomeOf(c)' = Atomic!Broken /\ TokenOf(c)' = TokenOf(c)
  BY <1>1 DEF LoseReply, OutcomeOf, TokenOf, Decided, storeVars, Atomic!Broken, Atomic!Result
<1>4. [Tokens EXCEPT ![c] = TokenOf(c)] = Tokens
  BY DEF Tokens
<1>5. Outcome' = [Outcome EXCEPT ![c] = Atomic!Broken] /\ UNCHANGED <<Tokens, Told>>
  BY <1>1, <1>2, <1>3, <1>4, OneCallSeen
<1>6. asked[c] # NoRequest /\ c \notin Told
  BY <1>1, AuthAssumption DEF AInv, IInv, CallsInOrder, Told
<1>7. asked' = asked /\ UNCHANGED Store
  BY StoreSeen DEF LoseReply, storeVars
<1>8. Atomic!Lose(c)
  BY <1>5, <1>6, <1>7 DEF Atomic!Lose
<1> QED
  BY <1>8 DEF Atomic!Next

\* A registration that may have an account in the table all the same.
LEMMA LeaveSeen ==
  ASSUME AInv, NEW c \in Call, InsertAllTheSame(c)
  PROVE  Atomic!MayLeave(c)
<1>1. InHandler(c) /\ ~Decided(c) /\ Registers(c) /\ asked[c].password \notin Short /\ ~Taken(users, NameOf(c))
  BY DEF InsertAllTheSame, InHandler, Decided, TooShort
<1> QED
  BY <1>1, UndecidedSeen DEF Atomic!MayLeave

LEMMA DatabaseFailsSeen ==
  ASSUME AInv, NEW c \in Call, DatabaseFails(c)
  PROVE  Atomic!Next \/ UNCHANGED Seen
<1>1. pc[c] \in {"statement", "touch"} /\ pc'[c] = "memory" /\ asked' = asked /\ memory' = memory
  BY DEF DatabaseFails, FallBack, Goto, AInv, IInv, TypeOK
<1>2. \A d \in Call : d # c => Alone(d)
  BY OthersAlone DEF AInv, IInv, DatabaseFails, FallBack
<1>3. OutcomeOf(c)' = OutcomeOf(c) /\ TokenOf(c)' = TokenOf(c)
  BY <1>1 DEF DatabaseFails, FallBack, OutcomeOf, TokenOf, Decided
<1>4. UNCHANGED <<Tokens, Outcome, Told>>
  BY <1>1, <1>2, <1>3, OneCallUnseen
<1>5. CASE UNCHANGED users
  BY <1>1, <1>4, <1>5, StoreSeen DEF Seen
<1>6. CASE InsertAllTheSame(c)
  <2>1. Store' = [Store EXCEPT !["table"][asked[c].name] = <<c, "table">>]
    BY <1>1, <1>6, PutSeen DEF InsertAllTheSame, NameOf
  <2>2. Atomic!Leave(c)
    BY <1>1, <1>4, <1>6, <2>1, LeaveSeen DEF Atomic!Leave, Atomic!Put
  <2> QED
    BY <2>2 DEF Atomic!Next
<1> QED
  BY <1>5, <1>6 DEF DatabaseFails

LEMMA ServerRestartSeen ==
  ASSUME AInv, ServerRestart
  PROVE  Atomic!Next
<1> DEFINE Cut == {c \in Call : InHandler(c)}
<1>1. Cut \in SUBSET {c \in Call \ Told : asked[c] # NoRequest}
  BY AuthAssumption DEF AInv, IInv, CallsInOrder, InHandler, Told
<1>2. ASSUME NEW c \in Call
      PROVE  /\ OutcomeOf(c)' = IF c \in Cut THEN Atomic!Broken ELSE Outcome[c]
             /\ TokenOf(c)' = NoAccount
             /\ pc'[c] = "done" <=> pc[c] = "done"
  <2>1. pc'[c] # "token" /\ tokens'[c] = NoAccount /\ at'[c] = at[c]
    BY DEF ServerRestart, InHandler, ForgetMemory
  <2>2. c \in Cut => reply'[c] = "broken" /\ pc[c] # "done" /\ pc'[c] = "answer"
    BY DEF ServerRestart, InHandler
  <2>3. c \notin Cut => reply'[c] = reply[c] /\ pc'[c] = pc[c] /\ pc[c] # "token"
    BY DEF ServerRestart, InHandler
  <2>4. c \notin Cut => OutcomeOf(c)' = OutcomeOf(c)
    BY <2>1, <2>3 DEF OutcomeOf, Decided
  <2>5. c \in Cut => OutcomeOf(c)' = Atomic!Broken
    BY <2>1, <2>2 DEF OutcomeOf, Decided, Atomic!Broken, Atomic!Result
  <2> QED
    BY <2>1, <2>2, <2>3, <2>4, <2>5 DEF TokenOf, Decided, Outcome
<1>3. Outcome' = [c \in Call |-> IF c \in Cut THEN Atomic!Broken ELSE Outcome[c]]
  BY <1>2 DEF Outcome
<1>4. Tokens' = [c \in Call |-> NoAccount] /\ Told' = Told
  BY <1>2 DEF Tokens, Told
<1>5. memory' = Atomic!Empty /\ asked' = asked
  BY DEF ServerRestart, ForgetMemory, Atomic!Empty
<1>6. Store' = [place \in Atomic!Place |-> IF place = "table" THEN users' ELSE Atomic!Empty]
  BY <1>5 DEF Store, Place, Atomic!Place
<1>7. users' \in {Store["table"]} \cup
                 {[Store["table"] EXCEPT ![asked[c].name] = <<c, "table">>] :
                    c \in {d \in Call : Atomic!MayLeave(d)}}
  <2>1. CASE UNCHANGED users
    BY <2>1, StoreSeen
  <2>2. ASSUME NEW c \in Call, InsertAllTheSame(c)
        PROVE  /\ Atomic!MayLeave(c)
               /\ users' = [Store["table"] EXCEPT ![asked[c].name] = <<c, "table">>]
    BY <2>2, LeaveSeen, StoreSeen DEF InsertAllTheSame, NameOf
  <2> QED
    BY <2>1, <2>2 DEF ServerRestart
<1> HIDE DEF Cut
<1>8. Atomic!Restart
  BY <1>1, <1>3, <1>4, <1>5, <1>6, <1>7 DEF Atomic!Restart
<1> QED
  BY <1>8 DEF Atomic!Next

LEMMA StepSeen == AInv /\ [Next]_authVars => [Atomic!Next]_Seen
<1> SUFFICES ASSUME AInv, [Next]_authVars PROVE Atomic!Next \/ UNCHANGED Seen
  OBVIOUS
<1>1. ASSUME NEW c \in Call, Handle(c)
      PROVE  Atomic!Next \/ UNCHANGED Seen
  BY <1>1, RefuseShortSeen, InsertUserSeen, SelectUserSeen, TouchUserSeen, IssueTokenSeen,
     RegisterInMemorySeen, LoginInMemorySeen DEF Handle
<1>2. CASE UNCHANGED authVars
  BY <1>2 DEF authVars, storeVars, callVars, Seen, Store, Tokens, TokenOf, Outcome, OutcomeOf, Told,
              Decided, Registers
<1> QED
  BY <1>1, <1>2, SubmitSeen, DeliverSeen, LoseReplySeen, DatabaseFailsSeen, ServerRestartSeen DEF Next

\* Every call takes effect at one moment between its request and its answer,
\* although its statements, the fallback to memory and the token are steps of
\* their own, between which other loops and restarts come: a registration
\* makes its account and its token together, a login finds what it is given,
\* a refusal is right about that moment, and what was told stays so.
THEOREM CallsTakeEffectAtOnce == Spec => CallsAreAtomic
<1>1. Init => Atomic!Init
  <2> SUFFICES ASSUME Init PROVE Atomic!Init
    OBVIOUS
  <2>1. Outcome = [c \in Call |-> Atomic!Undecided] /\ Tokens = [c \in Call |-> NoAccount] /\ Told = {}
    BY DEF Init, Outcome, OutcomeOf, Tokens, TokenOf, Told, Decided, Atomic!Undecided, Atomic!Result
  <2>2. Store = [place \in Atomic!Place |-> Atomic!Empty]
    BY DEF Init, Store, Place, Atomic!Place, Atomic!Empty
  <2> QED
    BY <2>1, <2>2 DEF Init, Atomic!Init
<1>2. AInv /\ [Next]_authVars => AInv'
  BY StepInv, AnsweredNext DEF AInv, IInv
<1>3. Init => AInv
  BY InitInv, AnsweredInit DEF AInv
<1> QED
  BY <1>1, <1>2, <1>3, StepSeen, PTL DEF Spec, CallsAreAtomic, Atomic!Spec, Atomic!vars, Seen

-----------------------------------------------------------------------------
(***************************************************************************)
(* The dialogs of the clients, for any number of windows.                  *)
(*                                                                         *)
(* A window whose dialogs were not closed in mid-wait has one call under   *)
(* way at most, so its calls were made one after the other was answered.   *)
(***************************************************************************)
\* A call of the window that is under way.
Pending(w, c) == owner[c] = w /\ pc[c] \notin {"new", "done"}

OnePending(w) ==
  \A c \in Call : Pending(w, c) => dialog[w] = "waiting" /\ \A d \in Call : Pending(w, d) => d = c

\* The calls of the window that were answered, one after the other.
InTurn(w) ==
  \A c, d \in Call :
    owner[c] = w /\ owner[d] = w /\ pc[c] = "done" /\ pc[d] # "new" =>
      c = d \/ c \in before[d] \/ d \in before[c]

\* The session of the window is from a call of its own.
OwnSession(w) == session[w] # NoCall => session[w] \in Call /\ owner[session[w]] = w /\ pc[session[w]] = "done"

LatestSession(w) ==
  ~hasty[w] /\ session[w] # NoCall =>
    \A c \in Call : owner[c] = w /\ pc[c] = "done" /\ Granted(c) => c = session[w] \/ c \in before[session[w]]

WindowTypes ==
  /\ dialog \in [Window -> {"closed", "open", "waiting"}]
  /\ session \in [Window -> Call \cup {NoCall}]
  /\ owner \in [Call -> Window \cup {NoWindow}]
  /\ hasty \in [Window -> BOOLEAN]
  /\ \A c \in Call : pc[c] # "new" => owner[c] \in Window

WindowInv(w) ==
  /\ ~hasty[w] => OnePending(w) /\ InTurn(w)
  /\ OwnSession(w)
  /\ LatestSession(w)

DInv == IInv /\ WindowTypes /\ \A w \in Window : WindowInv(w)

LEMMA DInit == InitDialog => DInv
<1> SUFFICES ASSUME InitDialog PROVE DInv
  OBVIOUS
<1>1. IInv /\ WindowTypes
  BY InitInv DEF InitDialog, Init, WindowTypes
<1>2. \A c \in Call : pc[c] = "new"
  BY DEF InitDialog, Init
<1>3. \A w \in Window : session[w] = NoCall
  BY DEF InitDialog
<1> QED
  BY <1>1, <1>2, <1>3 DEF DInv, WindowInv, OnePending, Pending, InTurn, OwnSession, LatestSession

\* A step of the service that answers no call and begins none.
LEMMA ServiceStep ==
  ASSUME DInv, UNCHANGED <<windowVars, before>>,
         \A c \in Call : /\ pc'[c] = "new" <=> pc[c] = "new"
                         /\ pc'[c] = "done" <=> pc[c] = "done"
                         /\ pc[c] = "done" => reply'[c] = reply[c]
  PROVE  WindowTypes' /\ \A w \in Window : WindowInv(w)'
<1>1. WindowTypes'
  BY DEF DInv, WindowTypes, windowVars
<1> SUFFICES ASSUME NEW w \in Window PROVE WindowInv(w)'
  BY <1>1
<1>2. UNCHANGED <<dialog, session, owner, hasty, before>>
  BY DEF windowVars
<1>3. WindowInv(w)
  BY DEF DInv
<1>4. \A c \in Call : Pending(w, c)' <=> Pending(w, c)
  BY <1>2 DEF Pending
<1>5. OnePending(w) => OnePending(w)'
  BY <1>2, <1>4 DEF OnePending
<1>6. InTurn(w) => InTurn(w)'
  BY <1>2 DEF InTurn
<1>7. OwnSession(w)' /\ LatestSession(w)'
  BY <1>2, <1>3 DEF WindowInv, OwnSession, LatestSession, Granted
<1> QED
  BY <1>2, <1>3, <1>5, <1>6, <1>7 DEF WindowInv

LEMMA HandlerStep ==
  ASSUME DInv, \/ \E c \in Call : Handle(c) \/ DatabaseFails(c) \/ LoseReply(c)
               \/ ServerRestart,
         UNCHANGED windowVars
  PROVE  WindowTypes' /\ \A w \in Window : WindowInv(w)'
<1>1. UNCHANGED before
  BY DEF Handle, RefuseShort, InsertUser, SelectUser, TouchUser, IssueToken, RegisterInMemory, LoginInMemory,
         DatabaseFails, LoseReply, ServerRestart
<1>2. \A c \in Call : /\ pc'[c] = "new" <=> pc[c] = "new"
                      /\ pc'[c] = "done" <=> pc[c] = "done"
                      /\ pc[c] = "done" => reply'[c] = reply[c]
  <2>1. CASE ServerRestart
    BY <2>1 DEF ServerRestart, InHandler, DInv, IInv, TypeOK
  <2>2. ASSUME NEW c \in Call, Handle(c) \/ DatabaseFails(c) \/ LoseReply(c)
        PROVE  /\ pc[c] \notin {"new", "done"} /\ pc'[c] \notin {"new", "done"}
               /\ \A d \in Call \ {c} : pc'[d] = pc[d] /\ reply'[d] = reply[d]
    BY <2>2 DEF Handle, RefuseShort, InsertUser, SelectUser, TouchUser, IssueToken, RegisterInMemory,
                LoginInMemory, DatabaseFails, LoseReply, FallBack, Answer, Goto, DInv, IInv, TypeOK
  <2> QED
    BY <2>1, <2>2
<1> QED
  BY <1>1, <1>2, ServiceStep

\* The user opens or closes a dialog, or signs out.
LEMMA WindowStep ==
  ASSUME DInv, NEW v \in Window, OpenDialog(v) \/ CloseDialog(v) \/ SignOut(v)
  PROVE  WindowTypes' /\ \A w \in Window : WindowInv(w)'
<1>1. UNCHANGED <<pc, reply, before, owner>>
  BY DEF OpenDialog, CloseDialog, SignOut, authVars, callVars
<1>2. WindowTypes'
  BY <1>1 DEF DInv, WindowTypes, OpenDialog, CloseDialog, SignOut, Show
<1>3. \A w \in Window \ {v} : UNCHANGED <<dialog[w], session[w], hasty[w]>>
  BY DEF OpenDialog, CloseDialog, SignOut, Show, DInv, WindowTypes
<1>4. /\ ~hasty'[v] => ~hasty[v] /\ (dialog[v] = "waiting" => dialog'[v] = "waiting")
      /\ session'[v] \in {session[v], NoCall}
  BY DEF OpenDialog, CloseDialog, SignOut, Show, DInv, WindowTypes
<1> SUFFICES ASSUME NEW w \in Window PROVE WindowInv(w)'
  BY <1>2
<1>5. WindowInv(w)
  BY DEF DInv
<1>6. /\ ~hasty'[w] => ~hasty[w] /\ (dialog[w] = "waiting" => dialog'[w] = "waiting")
      /\ session'[w] \in {session[w], NoCall}
  BY <1>3, <1>4
<1>7. ~hasty'[w] => OnePending(w)' /\ InTurn(w)'
  BY <1>1, <1>5, <1>6 DEF WindowInv, OnePending, Pending, InTurn
<1>8. OwnSession(w)' /\ LatestSession(w)'
  BY <1>1, <1>5, <1>6 DEF WindowInv, OwnSession, LatestSession, Granted
<1> QED
  BY <1>7, <1>8 DEF WindowInv

\* A click needs a dialog that does not wait: whatever the window asked for
\* before was answered.
LEMMA ClickStep ==
  ASSUME DInv, NEW v \in Window, NEW c \in Call, NEW kind \in Kind, NEW n \in Name, NEW p \in Password,
         Click(v, c, kind, n, p)
  PROVE  WindowTypes' /\ \A w \in Window : WindowInv(w)'
<1>1. /\ UNCHANGED <<session, hasty, reply>>
      /\ dialog[v] = "open" /\ dialog'[v] = "waiting" /\ \A w \in Window \ {v} : dialog'[w] = dialog[w]
      /\ pc[c] = "new" /\ pc'[c] = "statement" /\ \A d \in Call \ {c} : pc'[d] = pc[d]
      /\ owner'[c] = v /\ \A d \in Call \ {c} : owner'[d] = owner[d]
      /\ before'[c] = {d \in Call : pc[d] = "done"} /\ \A d \in Call \ {c} : before'[d] = before[d]
  BY DEF Click, Enabled, Show, Submit, Goto, DInv, WindowTypes, IInv, TypeOK
<1>2. WindowTypes'
  BY <1>1 DEF Click, Show, DInv, WindowTypes
<1> SUFFICES ASSUME NEW w \in Window PROVE WindowInv(w)'
  BY <1>2
<1>3. WindowInv(w)
  BY DEF DInv
<1>4. \A d \in Call \ {c} : Pending(w, d)' <=> Pending(w, d)
  BY <1>1 DEF Pending
<1>5. Pending(w, c)' <=> w = v
  BY <1>1 DEF Pending
<1>6. ASSUME ~hasty[w] PROVE OnePending(w)'
  <2>1. OnePending(w)
    BY <1>3, <1>6 DEF WindowInv
  <2>2. CASE w = v
    BY <1>1, <1>4, <2>1, <2>2 DEF OnePending
  <2>3. CASE w # v
    BY <1>1, <1>4, <1>5, <2>1, <2>3 DEF OnePending
  <2> QED
    BY <2>2, <2>3
<1>7. ASSUME ~hasty[w] PROVE InTurn(w)'
  <2>1. InTurn(w)
    BY <1>3, <1>7 DEF WindowInv
  <2> QED
    BY <1>1, <2>1 DEF InTurn
<1>8. OwnSession(w)' /\ LatestSession(w)'
  BY <1>1, <1>3 DEF WindowInv, OwnSession, LatestSession, Granted
<1> QED
  BY <1>1, <1>3, <1>6, <1>7, <1>8 DEF WindowInv

\* The call that is answered is the only one of its window under way.
LEMMA FinishStep ==
  ASSUME DInv, NEW c \in Call, AuthFinished(c)
  PROVE  WindowTypes' /\ \A w \in Window : WindowInv(w)'
<1>1. PICK v \in Window : owner[c] = v
  BY DEF AuthFinished, Deliver, DInv, WindowTypes
<1>2. /\ UNCHANGED <<owner, hasty, reply, before>>
      /\ pc[c] = "answer" /\ pc'[c] = "done" /\ \A d \in Call \ {c} : pc'[d] = pc[d]
      /\ \A w \in Window \ {v} : UNCHANGED <<dialog[w], session[w]>>
      /\ session'[v] = IF Granted(c) THEN c ELSE session[v]
  BY <1>1 DEF AuthFinished, Deliver, Goto, FinishPendingAuth, Show, DInv, WindowTypes, IInv, TypeOK
<1>3. WindowTypes'
  BY <1>1, <1>2 DEF AuthFinished, FinishPendingAuth, Show, DInv, WindowTypes
<1> SUFFICES ASSUME NEW w \in Window PROVE WindowInv(w)'
  BY <1>3
<1>4. WindowInv(w)
  BY DEF DInv
<1>5. \A d \in Call : /\ Granted(d)' <=> Granted(d)
                      /\ d # c => (Pending(w, d)' <=> Pending(w, d))
                      /\ ~Pending(w, c)'
  BY <1>2 DEF Granted, Pending
<1>6. CASE w # v
  BY <1>1, <1>2, <1>4, <1>5, <1>6 DEF WindowInv, OnePending, InTurn, OwnSession, LatestSession
<1>7. CASE w = v
  <2>1. \A d \in Call : c \notin before[d]
    BY <1>2 DEF DInv, IInv, CallsInOrder
  <2>2. ~hasty[w] => \A d \in Call \ {c} : owner[d] = w /\ pc[d] # "new" => pc[d] = "done" /\ d \in before[c]
    <3> SUFFICES ASSUME ~hasty[w], NEW d \in Call \ {c}, owner[d] = w, pc[d] # "new"
                 PROVE  pc[d] = "done" /\ d \in before[c]
      OBVIOUS
    <3>1. pc[d] = "done"
      BY <1>1, <1>2, <1>4, <1>7 DEF WindowInv, OnePending, Pending
    <3> QED
      BY <1>1, <1>2, <1>4, <1>7, <2>1, <3>1 DEF WindowInv, InTurn
  <2>3. ~hasty[w] => OnePending(w)' /\ InTurn(w)'
    BY <1>2, <1>4, <2>2 DEF WindowInv, OnePending, Pending, InTurn
  <2>4. OwnSession(w)'
    BY <1>1, <1>2, <1>4, <1>7 DEF WindowInv, OwnSession
  <2>5. LatestSession(w)'
    BY <1>2, <1>4, <1>5, <1>7, <2>2 DEF WindowInv, LatestSession
  <2> QED
    BY <1>2, <2>3, <2>4, <2>5 DEF WindowInv
<1> QED
  BY <1>6, <1>7

\* What the dialogs and the service do together is what the service may do.
LEMMA DialogStep == [NextDialog]_dialogVars => [Next]_authVars
  BY DEF NextDialog, Next, dialogVars, OpenDialog, Click, CloseDialog, SignOut, AuthFinished

LEMMA DNext == DInv /\ [NextDialog]_dialogVars => DInv'
<1> SUFFICES ASSUME DInv, [NextDialog]_dialogVars PROVE WindowTypes' /\ \A w \in Window : WindowInv(w)'
  BY DialogStep, StepInv DEF DInv
<1>1. CASE UNCHANGED dialogVars
  BY <1>1, ServiceStep DEF dialogVars, authVars, callVars
<1> QED
  BY <1>1, HandlerStep, WindowStep, ClickStep, FinishStep DEF NextDialog

\* The dialogs use the service as it may be used: all that is proved of it
\* holds in the program that has both.
THEOREM DialogsUseService == SpecDialog => Spec
<1>1. InitDialog => Init
  BY DEF InitDialog
<1> QED
  BY <1>1, DialogStep, PTL DEF SpecDialog, Spec

\* The disabled buttons of a dialog make sure that a window has one call under
\* way, unless a dialog is closed while it waits; so the session of a window
\* is from the sign-in the user made last.
THEOREM SessionsAreLatest == SpecDialog => []SessionIsLatest
<1>1. DInv => SessionIsLatest
  BY DEF DInv, WindowInv, LatestSession, SessionIsLatest
<1> QED
  BY <1>1, DInit, DNext, PTL DEF SpecDialog

-----------------------------------------------------------------------------
(***************************************************************************)
(* What DialogsEnd rests on beside fairness: a dialog does not wait for    *)
(* nothing, and a call does not go round in circles.                       *)
(***************************************************************************)
\* The disabled buttons of a dialog belong to a call whose answer is to come,
\* also when the window was asked to sign in again after a dialog was closed.
WaitersAreAwaited == \A w \in Window : dialog[w] = "waiting" => \E c \in Call : Pending(w, c)

\* How far a call has come.
Rank ==
  [new |-> 0, statement |-> 1, touch |-> 2, token |-> 3, memory |-> 3, answer |-> 4, done |-> 5]

\* Whatever happens, a failure of the database and a restart of the server
\* included, brings a call nearer to its answer or leaves it where it is.
CallsMoveOn == [][\A c \in Call : pc'[c] # pc[c] => Rank[pc'[c]] > Rank[pc[c]]]_dialogVars

WInv == DInv /\ WaitersAreAwaited

\* A step that ends no call keeps the dialogs that wait waiting for theirs.
LEMMA StillAwaited ==
  ASSUME WInv, UNCHANGED owner,
         \A w \in Window : dialog'[w] = "waiting" => dialog[w] = "waiting",
         \A c \in Call : pc'[c] \in {"new", "done"} => pc[c] \in {"new", "done"}
  PROVE  WaitersAreAwaited'
BY DEF WInv, WaitersAreAwaited, Pending

LEMMA ServiceAwaited ==
  ASSUME WInv, \/ \E c \in Call : Handle(c) \/ DatabaseFails(c) \/ LoseReply(c)
               \/ ServerRestart,
         UNCHANGED windowVars
  PROVE  WaitersAreAwaited'
<1>1. \A c \in Call : pc'[c] \in {"new", "done"} => pc[c] \in {"new", "done"}
  <2>1. CASE ServerRestart
    BY <2>1 DEF ServerRestart, WInv, DInv, IInv, TypeOK
  <2>2. ASSUME NEW c \in Call, Handle(c) \/ DatabaseFails(c) \/ LoseReply(c)
        PROVE  pc'[c] \notin {"new", "done"} /\ \A d \in Call \ {c} : pc'[d] = pc[d]
    BY <2>2 DEF Handle, RefuseShort, InsertUser, SelectUser, TouchUser, IssueToken, RegisterInMemory,
                LoginInMemory, DatabaseFails, LoseReply, FallBack, Answer, Goto, WInv, DInv, IInv, TypeOK
  <2> QED
    BY <2>1, <2>2
<1> QED
  BY <1>1, StillAwaited DEF windowVars

LEMMA WindowAwaited ==
  ASSUME WInv, NEW v \in Window, OpenDialog(v) \/ CloseDialog(v) \/ SignOut(v)
  PROVE  WaitersAreAwaited'
<1>1. UNCHANGED <<pc, owner>>
  BY DEF OpenDialog, CloseDialog, SignOut, authVars, callVars
<1>2. \A w \in Window : dialog'[w] = "waiting" => dialog[w] = "waiting"
  BY DEF OpenDialog, CloseDialog, SignOut, Show, WInv, DInv, WindowTypes
<1> QED
  BY <1>1, <1>2, StillAwaited

\* The dialog that is clicked waits for the call the click makes.
LEMMA ClickAwaited ==
  ASSUME WInv, NEW v \in Window, NEW c \in Call, NEW kind \in Kind, NEW n \in Name, NEW p \in Password,
         Click(v, c, kind, n, p)
  PROVE  WaitersAreAwaited'
<1>1. /\ \A w \in Window \ {v} : dialog'[w] = dialog[w]
      /\ pc[c] = "new" /\ pc'[c] = "statement" /\ \A d \in Call \ {c} : pc'[d] = pc[d]
      /\ owner'[c] = v /\ \A d \in Call \ {c} : owner'[d] = owner[d]
  BY DEF Click, Enabled, Show, Submit, Goto, WInv, DInv, WindowTypes, IInv, TypeOK
<1>2. Pending(v, c)' /\ \A w \in Window, d \in Call \ {c} : Pending(w, d)' <=> Pending(w, d)
  BY <1>1 DEF Pending
<1>3. \A w \in Window : ~Pending(w, c)
  BY <1>1 DEF Pending
<1> QED
  BY <1>1, <1>2, <1>3 DEF WInv, WaitersAreAwaited

\* The answer to any call of a window ends the waiting of its dialog.
LEMMA FinishAwaited ==
  ASSUME WInv, NEW c \in Call, AuthFinished(c)
  PROVE  WaitersAreAwaited'
<1>1. PICK v \in Window : owner[c] = v
  BY DEF AuthFinished, Deliver, WInv, DInv, WindowTypes
<1>2. /\ UNCHANGED owner
      /\ dialog'[v] # "waiting" /\ \A w \in Window \ {v} : dialog'[w] = dialog[w]
      /\ \A d \in Call \ {c} : pc'[d] = pc[d]
  BY <1>1 DEF AuthFinished, Deliver, Goto, FinishPendingAuth, Show, WInv, DInv, WindowTypes, IInv, TypeOK
<1>3. \A w \in Window \ {v}, d \in Call : Pending(w, d) => d # c /\ Pending(w, d)'
  BY <1>1, <1>2 DEF Pending
<1> QED
  BY <1>2, <1>3 DEF WInv, WaitersAreAwaited

LEMMA AwaitedNext == WInv /\ [NextDialog]_dialogVars => WInv'
<1> SUFFICES ASSUME WInv, [NextDialog]_dialogVars PROVE WaitersAreAwaited'
  BY DNext DEF WInv
<1>1. CASE UNCHANGED dialogVars
  BY <1>1, StillAwaited DEF dialogVars, authVars, callVars, windowVars
<1> QED
  BY <1>1, ServiceAwaited, WindowAwaited, ClickAwaited, FinishAwaited DEF NextDialog

\* Every step moves one call forward, or ends the handlers that run.
LEMMA MovesOn ==
  ASSUME TypeOK, [Next]_authVars, NEW c \in Call, pc'[c] # pc[c]
  PROVE  Rank[pc'[c]] > Rank[pc[c]]
<1>1. /\ Rank["new"] = 0 /\ Rank["statement"] = 1 /\ Rank["touch"] = 2 /\ Rank["token"] = 3
      /\ Rank["memory"] = 3 /\ Rank["answer"] = 4 /\ Rank["done"] = 5
  BY DEF Rank
<1>2. CASE ServerRestart
  <2>1. pc[c] \in {"statement", "touch", "token", "memory"} /\ pc'[c] = "answer"
    BY <1>2 DEF ServerRestart, InHandler
  <2> HIDE DEF Rank
  <2> QED
    BY <1>1, <2>1
<1>3. ASSUME NEW d \in Call, NEW from, NEW label, pc[d] = from, Goto(d, label), Rank[label] > Rank[from]
      PROVE  Rank[pc'[c]] > Rank[pc[c]]
  BY <1>3 DEF Goto, TypeOK
<1>4. ASSUME NEW d \in Call, NEW kind \in Kind, NEW n \in Name, NEW p \in Password, Submit(d, kind, n, p)
      PROVE  pc[d] = "new" /\ Goto(d, "statement")
  BY <1>4 DEF Submit
<1>5. ASSUME NEW d \in Call, Handle(d)
      PROVE  \/ pc[d] = "statement" /\ (Goto(d, "touch") \/ Goto(d, "token") \/ Goto(d, "answer"))
             \/ pc[d] = "touch" /\ Goto(d, "token")
             \/ pc[d] \in {"token", "memory"} /\ Goto(d, "answer")
  BY <1>5 DEF Handle, RefuseShort, InsertUser, SelectUser, TouchUser, IssueToken, RegisterInMemory,
              LoginInMemory, Answer
<1>6. ASSUME NEW d \in Call, Deliver(d)
      PROVE  pc[d] = "answer" /\ Goto(d, "done")
  BY <1>6 DEF Deliver
<1>7. ASSUME NEW d \in Call, DatabaseFails(d)
      PROVE  pc[d] \in {"statement", "touch"} /\ Goto(d, "memory")
  BY <1>7 DEF DatabaseFails, FallBack
<1>8. \A d \in Call : ~LoseReply(d)
  BY DEF LoseReply
<1>9. ~UNCHANGED authVars
  BY DEF authVars, callVars
<1> QED
  BY <1>1, <1>2, <1>3, <1>4, <1>5, <1>6, <1>7, <1>8, <1>9 DEF Next

\* A dialog that waits has a call under way, and a call only goes forward, at
\* most five steps: so the buttons of a dialog come back as soon as handlers
\* that have begun go on and replies arrive, whatever fails in between.
THEOREM DialogsAwaitAnswers == SpecDialog => []WaitersAreAwaited /\ CallsMoveOn
<1>1. InitDialog => WInv
  BY DInit DEF InitDialog, WInv, WaitersAreAwaited
<1>2. WInv => WaitersAreAwaited
  BY DEF WInv
<1>3. WInv /\ [NextDialog]_dialogVars
        => [\A c \in Call : pc'[c] # pc[c] => Rank[pc'[c]] > Rank[pc[c]]]_dialogVars
  <2> SUFFICES ASSUME WInv, [NextDialog]_dialogVars, NEW c \in Call, pc'[c] # pc[c]
               PROVE  Rank[pc'[c]] > Rank[pc[c]]
    OBVIOUS
  <2> QED
    BY DialogStep, MovesOn DEF WInv, DInv, IInv
<1> QED
  BY <1>1, <1>2, <1>3, AwaitedNext, PTL DEF SpecDialog, CallsMoveOn
=============================================================================
