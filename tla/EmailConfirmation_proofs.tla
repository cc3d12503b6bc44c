---------------------- MODULE EmailConfirmation_proofs ----------------------
(***************************************************************************)
(* TLAPS proofs about EmailConfirmation, for every number of accounts,     *)
(* tokens and requests in flight.                                          *)
(***************************************************************************)
EXTENDS EmailConfirmation, TLAPS

USE NoneAssumption

(***************************************************************************)
(* The inductive invariant.                                                *)
(***************************************************************************)

(* Tokens belong to accounts, and only tokens that exist have a history. *)
TokensConsistent ==
    /\ \A t \in Token : token[t] # None => token[t].user \in registered
    /\ \A t \in mailed \cup superseded : token[t] # None

(* A token that confirmed is burned, and its account is confirmed. *)
SpentConsistent ==
    \A t \in spent :
        /\ token[t] # None
        /\ token[t].used
        /\ token[t].user \in confirmed

(* What a request has read stays true: rows are never removed, and nothing *)
(* undoes a confirmation.                                                  *)
HasRead(c) ==
    /\ c.op \in {"replay", "commit", "publish"} => token[c.token] # None
    /\ c.op \in {"invalidate", "create"} => c.user \in registered
    /\ c.op = "answer" /\ c.outcome = "confirmed" => c.user \in confirmed

CallsConsistent == \A p \in Proc : call[p] # None => HasRead(call[p])

(* The hooks start in order and stop in the reverse order. *)
HooksInOrder ==
    /\ "http" \in open => "tracer" \in open
    /\ "tracer" \in open => "kafka" \in open
    /\ "kafka" \in open => "redis" \in open
    /\ "redis" \in open => "db" \in open

(* The listener is open while requests are served. *)
ServerConsistent ==
    /\ HooksInOrder
    /\ phase = "serving" => "http" \in open
    /\ ~ Drained => "http" \in open /\ phase \in {"serving", "stopping"}

IInv ==
    /\ TypeOK
    /\ TokensConsistent
    /\ SpentConsistent
    /\ SupersededTokensAreBurned
    /\ CallsConsistent
    /\ ServerConsistent

-----------------------------------------------------------------------------
(***************************************************************************)
(* Lemmas.                                                                 *)
(***************************************************************************)

(* The kind of a request tells its record. *)
LEMMA CallTypes ==
    ASSUME TypeOK, NEW p \in Proc
    PROVE  /\ InFlight(p, "replay") => call[p] \in ConfirmCall
           /\ InFlight(p, "commit") => call[p] \in ConfirmCall
           /\ InFlight(p, "invalidate") => call[p] \in ResendCall
           /\ InFlight(p, "create") => call[p] \in ResendCall
           /\ InFlight(p, "publish") => call[p] \in PublishCall
    BY DEF TypeOK, InFlight, Call, ConfirmCall, AnswerCall, ResendCall, PublishCall

(* A token that exists is a row. *)
LEMMA RowType ==
    ASSUME TypeOK, NEW t \in Token, token[t] # None
    PROVE  token[t] \in TokenRow
    BY DEF TypeOK

(* What the tokens of u are, some of which Active selects. *)
LEMMA ActiveTokens ==
    ASSUME TypeOK, NEW u \in User, NEW S \in Active(u)
    PROVE  /\ S \subseteq Issued(u)
           /\ Issued(u) \subseteq Token
           /\ \A t \in Issued(u) : token[t].age = "live" => t \in S
    BY DEF Active, Issued

(* The server has five hooks. *)
LEMMA FiveHooks ==
    /\ Len(ServerHooks) = 5
    /\ DOMAIN ServerHooks = 1 .. 5
    /\ ServerHooks[1] = "db"
    /\ ServerHooks[2] = "redis"
    /\ ServerHooks[3] = "kafka"
    /\ ServerHooks[4] = "tracer"
    /\ ServerHooks[5] = "http"
    BY DEF ServerHooks

-----------------------------------------------------------------------------
(***************************************************************************)
(* Types.                                                                  *)
(***************************************************************************)

LEMMA InitType == Init => TypeOK
    BY DEF Init, TypeOK, App!Init, App!TypeOK, App!Phase

(* What a request puts into its call is a call. *)
LEMMA ProceedType ==
    ASSUME TypeOK, NEW p \in Proc, NEW c \in Call \cup {None}, Proceed(p, c)
    PROVE  call' \in [Proc -> Call \cup {None}]
    BY DEF TypeOK, Proceed

LEMMA FinishType ==
    ASSUME TypeOK, NEW p \in Proc, Finish(p)
    PROVE  call' \in [Proc -> Call \cup {None}]
    BY DEF TypeOK, Finish

LEMMA AnswerType ==
    ASSUME TypeOK, NEW p \in Proc, NEW u \in User,
           NEW outcome \in {"confirmed", "used", "expired"}, Answer(p, u, outcome)
    PROVE  call' \in [Proc -> Call \cup {None}]
<1>1. [op |-> "answer", user |-> u, outcome |-> outcome] \in Call
    BY DEF Call, AnswerCall
<1>2. QED
    BY <1>1, ProceedType DEF Answer

LEMMA MintedType ==
    ASSUME NEW u \in User
    PROVE  Minted(u) \in TokenRow
    BY DEF Minted, TokenRow, Age

LEMMA UsedType ==
    ASSUME TypeOK, NEW t \in Token, token[t] # None
    PROVE  /\ Used(t) \in TokenRow
           /\ Used(t).user = token[t].user
           /\ Used(t).age = token[t].age
           /\ Used(t).used
    BY RowType DEF Used, TokenRow

LEMMA StepType == IInv /\ [Next]_vars => TypeOK'
<1> SUFFICES ASSUME IInv, [Next]_vars PROVE TypeOK'
    OBVIOUS
<1> USE DEF tables, server, history
<1>0. TypeOK /\ TokensConsistent /\ CallsConsistent
    BY DEF IInv
<1>1. ASSUME NEW p \in Proc, NEW u \in User, NEW t \in Token, Signup(p, u, t) PROVE TypeOK'
  <2>1. [op |-> "publish", token |-> t] \in Call
    BY DEF Call, PublishCall
  <2>2. call' \in [Proc -> Call \cup {None}]
    BY <1>0, <1>1, <2>1, ProceedType DEF Signup
  <2>3. token' \in [Token -> TokenRow \cup {None}]
    BY <1>0, <1>1, MintedType DEF Signup, TypeOK
  <2>4. QED
    BY <1>0, <1>1, <2>2, <2>3 DEF Signup, TypeOK, App!TypeOK
<1>2. ASSUME NEW u \in User, CreateConfirmedUser(u) PROVE TypeOK'
    BY <1>0, <1>2 DEF CreateConfirmedUser, TypeOK, App!TypeOK
<1>3. ASSUME NEW p \in Proc, Publish(p) PROVE TypeOK'
  <2>1. call[p].token \in Token
    BY <1>0, <1>3, CallTypes DEF Publish, PublishCall
  <2>2. call' \in [Proc -> Call \cup {None}]
    BY <1>0, <1>3, FinishType DEF Publish
  <2>3. QED
    BY <1>0, <1>3, <2>1, <2>2 DEF Publish, TypeOK, App!TypeOK
<1>4. ASSUME NEW p \in Proc, NEW t \in Token, ConfirmFind(p, t) PROVE TypeOK'
  <2>1. token[t].user \in User
    BY <1>0, <1>4, RowType DEF ConfirmFind, TokensConsistent, TokenRow
  <2>2. \A op \in {"replay", "commit"} : [op |-> op, token |-> t] \in Call
    BY DEF Call, ConfirmCall
  <2>3. call' \in [Proc -> Call \cup {None}]
    BY <1>0, <1>4, <2>1, <2>2, AnswerType, ProceedType DEF ConfirmFind
  <2>4. QED
    BY <1>0, <1>4, <2>3 DEF ConfirmFind, TypeOK, App!TypeOK
<1>5. ASSUME NEW p \in Proc, ConfirmReplay(p) PROVE TypeOK'
  <2>1. call[p].token \in Token /\ token[call[p].token] # None
    BY <1>0, <1>5, CallTypes DEF ConfirmReplay, InFlight, ConfirmCall, CallsConsistent, HasRead
  <2>2. token[call[p].token].user \in User
    BY <1>0, <2>1, RowType DEF TokenRow
  <2>3. call' \in [Proc -> Call \cup {None}]
    BY <1>0, <1>5, <2>2, AnswerType DEF ConfirmReplay, ReplayOutcome
  <2>4. QED
    BY <1>0, <1>5, <2>3 DEF ConfirmReplay, TypeOK, App!TypeOK
<1>6. ASSUME NEW p \in Proc, ConfirmCommit(p) PROVE TypeOK'
  <2> DEFINE t == call[p].token
             u == token[t].user
  <2>1. t \in Token /\ token[t] # None
    BY <1>0, <1>6, CallTypes DEF ConfirmCommit, InFlight, ConfirmCall, CallsConsistent, HasRead
  <2>2. u \in User /\ u \in registered
    BY <1>0, <2>1, RowType DEF TokenRow, TokensConsistent
  <2>3. call' \in [Proc -> Call \cup {None}]
    BY <1>0, <1>6, <2>2, AnswerType DEF ConfirmCommit
  <2>4. CASE Burns(t)
    <3>1. token' \in [Token -> TokenRow \cup {None}]
      BY <1>0, <1>6, <2>1, <2>4, UsedType DEF ConfirmCommit, TypeOK
    <3>2. stamp' \in [User -> Token \cup {None}]
      BY <1>0, <1>6, <2>1, <2>2, <2>4 DEF ConfirmCommit, TypeOK
    <3>3. QED
      BY <1>0, <1>6, <2>1, <2>2, <2>3, <2>4, <3>1, <3>2 DEF ConfirmCommit, TypeOK, App!TypeOK
  <2>5. CASE ~ Burns(t)
    BY <1>0, <1>6, <2>3, <2>5 DEF ConfirmCommit, TypeOK, App!TypeOK
  <2>6. QED
    BY <2>4, <2>5
<1>7. ASSUME NEW p \in Proc, NEW u \in User, ResendFind(p, u) PROVE TypeOK'
  <2>1. [op |-> "invalidate", user |-> u] \in Call
    BY DEF Call, ResendCall
  <2>2. call' \in [Proc -> Call \cup {None}]
    BY <1>0, <1>7, <2>1, ProceedType DEF ResendFind
  <2>3. QED
    BY <1>0, <1>7, <2>2 DEF ResendFind, TypeOK, App!TypeOK
<1>8. ASSUME NEW p \in Proc, ResendInvalidate(p) PROVE TypeOK'
  <2> DEFINE u == call[p].user
  <2>1. u \in User
    BY <1>0, <1>8, CallTypes DEF ResendInvalidate, ResendCall
  <2>2. PICK S \in Active(u) : token' = [t \in Token |-> IF t \in S THEN Used(t) ELSE token[t]]
    BY <1>8 DEF ResendInvalidate
  <2>3. \A t \in S : t \in Token /\ token[t] # None
    BY <1>0, <2>1, <2>2, ActiveTokens DEF Issued
  <2>4. token' \in [Token -> TokenRow \cup {None}]
    BY <1>0, <2>2, <2>3, UsedType DEF TypeOK
  <2>5. [op |-> "create", user |-> u] \in Call
    BY <2>1 DEF Call, ResendCall
  <2>6. call' \in [Proc -> Call \cup {None}]
    BY <1>0, <1>8, <2>5, ProceedType DEF ResendInvalidate
  <2>7. QED
    BY <1>0, <1>8, <2>4, <2>6 DEF ResendInvalidate, Issued, TypeOK, App!TypeOK
<1>9. ASSUME NEW p \in Proc, NEW t \in Token, ResendCreate(p, t) PROVE TypeOK'
  <2>1. call[p].user \in User
    BY <1>0, <1>9, CallTypes DEF ResendCreate, ResendCall
  <2>2. [op |-> "publish", token |-> t] \in Call
    BY DEF Call, PublishCall
  <2>3. call' \in [Proc -> Call \cup {None}]
    BY <1>0, <1>9, <2>2, ProceedType DEF ResendCreate
  <2>4. token' \in [Token -> TokenRow \cup {None}]
    BY <1>0, <1>9, <2>1, MintedType DEF ResendCreate, TypeOK
  <2>5. QED
    BY <1>0, <1>9, <2>3, <2>4 DEF ResendCreate, TypeOK, App!TypeOK
<1>10. ASSUME NEW p \in Proc, EndOfRequest(p) PROVE TypeOK'
    BY <1>0, <1>10, FinishType DEF EndOfRequest, TypeOK, App!TypeOK
<1>11. ASSUME NEW t \in Token, AgeToken(t) PROVE TypeOK'
  <2>1. token[t] \in TokenRow
    BY <1>0, <1>11, RowType DEF AgeToken
  <2>2. token'[t] \in TokenRow
    BY <1>0, <1>11, <2>1 DEF AgeToken, TypeOK, TokenRow, Age
  <2>3. token' \in [Token -> TokenRow \cup {None}]
    BY <1>0, <1>11, <2>2 DEF AgeToken, TypeOK
  <2>4. QED
    BY <1>0, <1>11, <2>3 DEF AgeToken, TypeOK, App!TypeOK
<1>12. ASSUME StartServer PROVE TypeOK'
  <2>1. App!TypeOK'
    BY <1>0, <1>12, FiveHooks
    DEF StartServer, TypeOK, App!TypeOK, App!Phase, App!Hook, App!Boot, App!StartHook, App!StartFails
  <2>2. QED
    BY <1>0, <1>12, <2>1 DEF StartServer, TypeOK
<1>13. ASSUME StopServer PROVE TypeOK'
  <2>1. App!TypeOK'
    BY <1>0, <1>13 DEF StopServer, TypeOK, App!TypeOK, App!Phase, App!Signal, App!StopHook
  <2>2. QED
    BY <1>0, <1>13, <2>1 DEF StopServer, TypeOK
<1>14. ASSUME KillServer PROVE TypeOK'
    BY <1>0, <1>14 DEF KillServer, App!Kill, App!Phase, TypeOK, App!TypeOK
<1>15. ASSUME UNCHANGED vars PROVE TypeOK'
    BY <1>0, <1>15 DEF vars, TypeOK, App!TypeOK
<1>16. QED
    BY <1>1, <1>2, <1>3, <1>4, <1>5, <1>6, <1>7, <1>8, <1>9, <1>10, <1>11, <1>12, <1>13, <1>14, <1>15
    DEF Next, Request, ConfirmEmail, ResendConfirmation

-----------------------------------------------------------------------------
(***************************************************************************)
(* What no step takes back.                                                *)
(***************************************************************************)

(* Rows stay, with their accounts; a burned token stays burned; time does  *)
(* not run backwards.                                                      *)
RowIsKept(t) ==
    token[t] # None =>
        /\ token'[t] # None
        /\ token'[t].user = token[t].user
        /\ token[t].used => token'[t].used
        /\ token'[t].age = "live" => token[t].age = "live"

RowsAreKept == \A t \in Token : RowIsKept(t)

LEMMA StepKeeps ==
    IInv /\ [Next]_vars =>
        RowsAreKept /\ registered \subseteq registered' /\ confirmed \subseteq confirmed'
<1> SUFFICES ASSUME IInv, [Next]_vars
             PROVE  /\ RowsAreKept
                    /\ registered \subseteq registered'
                    /\ confirmed \subseteq confirmed'
    OBVIOUS
<1> USE DEF tables, server, history
<1>0. TypeOK /\ CallsConsistent
    BY DEF IInv
<1>1. ASSUME UNCHANGED token PROVE RowsAreKept
    BY <1>1 DEF RowsAreKept, RowIsKept
<1>2. ASSUME NEW t \in Token, token[t] = None, NEW row, token' = [token EXCEPT ![t] = row]
      PROVE  RowsAreKept
    BY <1>0, <1>2 DEF RowsAreKept, RowIsKept, TypeOK
<1>3. ASSUME NEW p \in Proc, NEW u \in User, NEW t \in Token, Signup(p, u, t)
      PROVE  RowsAreKept
    BY <1>2, <1>3 DEF Signup, Fresh
<1>4. ASSUME NEW p \in Proc, ConfirmCommit(p) PROVE RowsAreKept
  <2> DEFINE t == call[p].token
  <2>1. t \in Token /\ token[t] # None
    BY <1>0, <1>4, CallTypes DEF ConfirmCommit, InFlight, ConfirmCall, CallsConsistent, HasRead
  <2>2. CASE Burns(t)
    BY <1>0, <1>4, <2>1, <2>2, UsedType DEF ConfirmCommit, RowsAreKept, RowIsKept, TypeOK
  <2>3. CASE ~ Burns(t)
    BY <1>1, <1>4, <2>3 DEF ConfirmCommit
  <2>4. QED
    BY <2>2, <2>3
<1>5. ASSUME NEW p \in Proc, ResendInvalidate(p) PROVE RowsAreKept
  <2> DEFINE u == call[p].user
  <2>1. u \in User
    BY <1>0, <1>5, CallTypes DEF ResendInvalidate, ResendCall
  <2>2. PICK S \in Active(u) : token' = [t \in Token |-> IF t \in S THEN Used(t) ELSE token[t]]
    BY <1>5 DEF ResendInvalidate
  <2>3. QED
    BY <1>0, <2>2, UsedType DEF RowsAreKept, RowIsKept
<1>6. ASSUME NEW p \in Proc, NEW t \in Token, ResendCreate(p, t) PROVE RowsAreKept
    BY <1>2, <1>6 DEF ResendCreate, Fresh
<1>7. ASSUME NEW t \in Token, AgeToken(t) PROVE RowsAreKept
  <2>1. token[t] \in TokenRow
    BY <1>0, <1>7, RowType DEF AgeToken
  <2>2. /\ token'[t] \in TokenRow
        /\ token'[t].user = token[t].user
        /\ token'[t].used = token[t].used
        /\ token'[t].age # "live"
    BY <1>0, <1>7, <2>1 DEF AgeToken, TypeOK, TokenRow, Age
  <2>3. QED
    BY <1>0, <1>7, <2>2 DEF AgeToken, RowsAreKept, RowIsKept, TypeOK
<1>8. QED
    BY <1>1, <1>3, <1>4, <1>5, <1>6, <1>7
    DEF Next, Request, ConfirmEmail, ResendConfirmation, CreateConfirmedUser, Publish, ConfirmFind,
        ConfirmReplay, ResendFind, EndOfRequest, StartServer, StopServer, KillServer, vars,
        Signup, ConfirmCommit, ResendInvalidate, ResendCreate, AgeToken

-----------------------------------------------------------------------------
(***************************************************************************)
(* The steps keep the tables and their history consistent.                 *)
(***************************************************************************)

LEMMA StepTokens == IInv /\ [Next]_vars => TokensConsistent'
<1> SUFFICES ASSUME IInv, [Next]_vars PROVE TokensConsistent'
    OBVIOUS
<1> USE DEF tables, server, history
<1>0. TypeOK /\ TokensConsistent /\ CallsConsistent /\ TypeOK'
    BY StepType DEF IInv
<1>k. RowsAreKept /\ registered \subseteq registered'
    BY StepKeeps
<1>1. ASSUME NEW t \in Token, token[t] = None, NEW u \in registered', token' = [token EXCEPT ![t] = Minted(u)]
      PROVE  \A s \in Token : token'[s] # None => token'[s].user \in registered'
    BY <1>0, <1>k, <1>1 DEF Minted, TypeOK, TokensConsistent
<1>2. \A s \in Token : token'[s] # None => token'[s].user \in registered'
  <2>1. ASSUME NEW p \in Proc, NEW u \in User, NEW t \in Token, Signup(p, u, t)
        PROVE  \A s \in Token : token'[s] # None => token'[s].user \in registered'
    BY <1>1, <2>1 DEF Signup, Fresh
  <2>2. ASSUME NEW p \in Proc, NEW t \in Token, ResendCreate(p, t)
        PROVE  \A s \in Token : token'[s] # None => token'[s].user \in registered'
    <3>1. call[p].user \in registered
      BY <1>0, <2>2 DEF ResendCreate, InFlight, CallsConsistent, HasRead
    <3>2. QED
      BY <1>1, <1>k, <2>2, <3>1 DEF ResendCreate, Fresh
  <2>3. ASSUME \A s \in Token : token'[s] # None => token[s] # None
        PROVE  \A s \in Token : token'[s] # None => token'[s].user \in registered'
    BY <1>0, <1>k, <2>3 DEF RowsAreKept, RowIsKept, TokensConsistent
  <2>4. ASSUME NEW p \in Proc, ResendInvalidate(p)
        PROVE  \A s \in Token : token'[s] # None => token[s] # None
    <3> DEFINE u == call[p].user
    <3>1. u \in User
      BY <1>0, <2>4, CallTypes DEF ResendInvalidate, ResendCall
    <3>2. PICK S \in Active(u) : token' = [t \in Token |-> IF t \in S THEN Used(t) ELSE token[t]]
      BY <2>4 DEF ResendInvalidate
    <3>3. QED
      BY <1>0, <3>1, <3>2, ActiveTokens DEF Issued
  <2>5. ASSUME NEW p \in Proc, ConfirmCommit(p)
        PROVE  \A s \in Token : token'[s] # None => token[s] # None
    BY <1>0, <2>5 DEF ConfirmCommit, InFlight, CallsConsistent, HasRead, TypeOK
  <2>6. ASSUME NEW t \in Token, AgeToken(t)
        PROVE  \A s \in Token : token'[s] # None => token[s] # None
    BY <1>0, <2>6 DEF AgeToken, TypeOK
  <2>7. ASSUME UNCHANGED token
        PROVE  \A s \in Token : token'[s] # None => token[s] # None
    BY <2>7
  <2>8. QED
    BY <2>1, <2>2, <2>3, <2>4, <2>5, <2>6, <2>7
    DEF Next, Request, ConfirmEmail, ResendConfirmation, CreateConfirmedUser, Publish, ConfirmFind,
        ConfirmReplay, ResendFind, EndOfRequest, StartServer, StopServer, KillServer, vars
<1>3. \A t \in mailed' \cup superseded' : token'[t] # None
  <2>1. ASSUME mailed' \subseteq mailed \cup {t \in Token : token[t] # None},
               superseded' \subseteq superseded \cup {t \in Token : token[t] # None}
        PROVE  \A t \in mailed' \cup superseded' : token'[t] # None
    BY <1>0, <1>k, <2>1 DEF TokensConsistent, TypeOK, RowsAreKept, RowIsKept
  <2>2. ASSUME NEW p \in Proc, Publish(p)
        PROVE  mailed' \subseteq mailed \cup {t \in Token : token[t] # None}
    BY <1>0, <2>2, CallTypes DEF Publish, InFlight, PublishCall, CallsConsistent, HasRead
  <2>3. ASSUME NEW p \in Proc, ResendInvalidate(p)
        PROVE  superseded' \subseteq superseded \cup {t \in Token : token[t] # None}
    BY <2>3 DEF ResendInvalidate, Issued
  <2>4. ASSUME NEW p \in Proc, ConfirmCommit(p) PROVE UNCHANGED <<mailed, superseded>>
    BY <2>4 DEF ConfirmCommit
  <2>5. QED
    BY <2>1, <2>2, <2>3, <2>4
    DEF Next, Request, ConfirmEmail, ResendConfirmation, Signup, CreateConfirmedUser, Publish,
        ConfirmFind, ConfirmReplay, ResendFind, ResendInvalidate, ResendCreate, EndOfRequest,
        AgeToken, StartServer, StopServer, KillServer, vars
<1>4. QED
    BY <1>2, <1>3 DEF TokensConsistent

LEMMA StepSpent == IInv /\ [Next]_vars => SpentConsistent'
<1> SUFFICES ASSUME IInv, [Next]_vars PROVE SpentConsistent'
    OBVIOUS
<1> USE DEF tables, server, history
<1>0. TypeOK /\ SpentConsistent /\ CallsConsistent
    BY DEF IInv
<1>k. RowsAreKept /\ confirmed \subseteq confirmed'
    BY StepKeeps
<1>1. ASSUME spent' = spent PROVE SpentConsistent'
    BY <1>0, <1>k, <1>1 DEF SpentConsistent, RowsAreKept, RowIsKept, TypeOK
<1>2. ASSUME NEW p \in Proc, ConfirmCommit(p) PROVE SpentConsistent'
  <2> DEFINE t == call[p].token
  <2>1. t \in Token /\ token[t] # None
    BY <1>0, <1>2, CallTypes DEF ConfirmCommit, InFlight, ConfirmCall, CallsConsistent, HasRead
  <2>2. CASE Burns(t)
    <3>1. token'[t] # None /\ token'[t].used /\ token'[t].user = token[t].user
      BY <1>0, <1>2, <1>k, <2>1, <2>2, UsedType DEF ConfirmCommit, TypeOK, RowsAreKept, RowIsKept
    <3>2. token[t].user \in confirmed' /\ spent' = spent \cup {t}
      BY <1>2, <2>2 DEF ConfirmCommit
    <3>3. QED
      BY <1>0, <1>k, <3>1, <3>2 DEF SpentConsistent, RowsAreKept, RowIsKept, TypeOK
  <2>3. CASE ~ Burns(t)
    BY <1>1, <1>2, <2>3 DEF ConfirmCommit
  <2>4. QED
    BY <2>2, <2>3
<1>3. QED
    BY <1>1, <1>2
    DEF Next, Request, ConfirmEmail, ResendConfirmation, Signup, CreateConfirmedUser, Publish,
        ConfirmFind, ConfirmReplay, ResendFind, ResendInvalidate, ResendCreate, EndOfRequest,
        AgeToken, StartServer, StopServer, KillServer, vars

(* A token that becomes superseded and is live is one that is burned. *)
LEMMA StepSuperseded == IInv /\ [Next]_vars => SupersededTokensAreBurned'
<1> SUFFICES ASSUME IInv, [Next]_vars PROVE SupersededTokensAreBurned'
    OBVIOUS
<1> USE DEF tables, server, history
<1>0. TypeOK /\ TokensConsistent /\ SupersededTokensAreBurned
    BY DEF IInv
<1>k. RowsAreKept
    BY StepKeeps
<1>1. ASSUME NEW t \in superseded, token'[t].age = "live" PROVE token'[t].used
    BY <1>0, <1>k, <1>1
    DEF TypeOK, TokensConsistent, RowsAreKept, RowIsKept, SupersededTokensAreBurned
<1>2. ASSUME NEW p \in Proc, ResendInvalidate(p) PROVE SupersededTokensAreBurned'
  <2> DEFINE u == call[p].user
  <2>1. u \in User
    BY <1>0, <1>2, CallTypes DEF ResendInvalidate, ResendCall
  <2>2. PICK S \in Active(u) : token' = [t \in Token |-> IF t \in S THEN Used(t) ELSE token[t]]
    BY <1>2 DEF ResendInvalidate
  <2>3. ASSUME NEW t \in Issued(u), token'[t].age = "live" PROVE token'[t].used
    <3>1. t \in Token /\ token[t] # None
      BY DEF Issued
    <3>2. token[t].age = "live"
      BY <1>k, <2>3, <3>1 DEF RowsAreKept, RowIsKept
    <3>3. t \in S
      BY <1>0, <2>1, <2>2, <3>2, ActiveTokens
    <3>4. QED
      BY <1>0, <2>2, <3>1, <3>3, UsedType
  <2>4. superseded' = superseded \cup Issued(u)
    BY <1>2 DEF ResendInvalidate
  <2>5. QED
    BY <1>1, <2>3, <2>4 DEF SupersededTokensAreBurned
<1>3. ASSUME superseded' = superseded PROVE SupersededTokensAreBurned'
    BY <1>1, <1>3 DEF SupersededTokensAreBurned
<1>4. QED
    BY <1>2, <1>3
    DEF Next, Request, ConfirmEmail, ResendConfirmation, Signup, CreateConfirmedUser, Publish,
        ConfirmFind, ConfirmReplay, ConfirmCommit, ResendFind, ResendCreate, EndOfRequest,
        AgeToken, StartServer, StopServer, KillServer, vars

-----------------------------------------------------------------------------
(***************************************************************************)
(* The steps keep what the requests have read, and the server in order.    *)
(***************************************************************************)

(* HasRead of what a request has found out, in the state after a step. *)
FoundOut(c) ==
    /\ c.op \in {"replay", "commit", "publish"} => token'[c.token] # None
    /\ c.op \in {"invalidate", "create"} => c.user \in registered'
    /\ c.op = "answer" /\ c.outcome = "confirmed" => c.user \in confirmed'

(* A request that goes on with what is true now. *)
LEMMA GoesOn ==
    ASSUME IInv, [Next]_vars, NEW p \in Proc, NEW c, Proceed(p, c), FoundOut(c)
    PROVE  CallsConsistent'
<1>0. TypeOK /\ CallsConsistent
    BY DEF IInv
<1>k. RowsAreKept /\ registered \subseteq registered' /\ confirmed \subseteq confirmed'
    BY StepKeeps
<1>1. ASSUME NEW q \in Proc, call[q] # None PROVE FoundOut(call[q])
  <2>1. HasRead(call[q]) /\ call[q] \in Call
    BY <1>0, <1>1 DEF CallsConsistent, TypeOK
  <2>2. call[q].op \in {"replay", "commit", "publish"} => call[q].token \in Token
    BY <2>1 DEF Call, ConfirmCall, AnswerCall, ResendCall, PublishCall
  <2>3. QED
    BY <1>k, <2>1, <2>2 DEF HasRead, FoundOut, RowsAreKept, RowIsKept
<1>2. ASSUME NEW q \in Proc, call'[q] # None PROVE HasRead(call[q])'
    BY <1>0, <1>1, <1>2 DEF Proceed, HasRead, FoundOut, TypeOK
<1>3. QED
    BY <1>2 DEF CallsConsistent

LEMMA StepCalls == IInv /\ [Next]_vars => CallsConsistent'
<1> SUFFICES ASSUME IInv, [Next]_vars PROVE CallsConsistent'
    OBVIOUS
<1> USE DEF tables, server, history
<1>0. TypeOK /\ TokensConsistent /\ CallsConsistent /\ TypeOK'
    BY StepType DEF IInv
<1>k. RowsAreKept /\ registered \subseteq registered' /\ confirmed \subseteq confirmed'
    BY StepKeeps
<1>1. ASSUME NEW p \in Proc, Finish(p) \/ UNCHANGED call PROVE CallsConsistent'
  <2>1. \A q \in Proc : call'[q] = call[q] \/ call'[q] = None
    BY <1>0, <1>1 DEF Finish, TypeOK
  <2>2. ASSUME NEW q \in Proc, call'[q] # None PROVE HasRead(call[q])'
    <3>1. HasRead(call[q]) /\ call[q] \in Call /\ call'[q] = call[q]
      BY <1>0, <2>1, <2>2 DEF CallsConsistent, TypeOK
    <3>2. call[q].op \in {"replay", "commit", "publish"} => call[q].token \in Token
      BY <3>1 DEF Call, ConfirmCall, AnswerCall, ResendCall, PublishCall
    <3>3. QED
      BY <1>k, <3>1, <3>2 DEF HasRead, RowsAreKept, RowIsKept
  <2>3. QED
    BY <2>2 DEF CallsConsistent
<1>2. ASSUME UNCHANGED call PROVE CallsConsistent'
  <2>1. CASE Proc = {}
    BY <2>1 DEF CallsConsistent
  <2>2. CASE Proc # {}
    BY <1>1, <1>2, <2>2
  <2>3. QED
    BY <2>1, <2>2
<1>3. ASSUME NEW p \in Proc, NEW u \in User, NEW t \in Token, Signup(p, u, t)
      PROVE  CallsConsistent'
  <2>1. token'[t] # None
    BY <1>0, <1>3, MintedType DEF Signup, TypeOK
  <2>2. FoundOut([op |-> "publish", token |-> t])
    BY <2>1 DEF FoundOut
  <2>3. QED
    BY <1>3, <2>2, GoesOn DEF Signup
<1>4. ASSUME NEW p \in Proc, NEW t \in Token, ConfirmFind(p, t) PROVE CallsConsistent'
  <2>1. token'[t] # None
    BY <1>0, <1>4 DEF ConfirmFind, TokensConsistent
  <2>2. FoundOut([op |-> "answer", user |-> token[t].user, outcome |-> "expired"])
    BY DEF FoundOut
  <2>3. \A op \in {"replay", "commit"} : FoundOut([op |-> op, token |-> t])
    BY <2>1 DEF FoundOut
  <2>4. QED
    BY <1>4, <2>2, <2>3, GoesOn DEF ConfirmFind, Answer
<1>5. ASSUME NEW p \in Proc, ConfirmReplay(p) PROVE CallsConsistent'
  <2> DEFINE u == token[call[p].token].user
             c == [op |-> "answer", user |-> u, outcome |-> ReplayOutcome(u)]
  <2>1. FoundOut(c)
    BY <1>k, <1>5 DEF FoundOut, ReplayOutcome, ConfirmReplay
  <2>2. Proceed(p, c)
    BY <1>5 DEF ConfirmReplay, Answer
  <2>3. QED
    BY <2>1, <2>2, GoesOn
<1>6. ASSUME NEW p \in Proc, ConfirmCommit(p) PROVE CallsConsistent'
  <2> DEFINE t == call[p].token
             u == token[t].user
  <2>1. CASE Burns(t)
    <3>1. u \in confirmed'
      BY <1>6, <2>1 DEF ConfirmCommit
    <3>2. FoundOut([op |-> "answer", user |-> u, outcome |-> "confirmed"])
      BY <3>1 DEF FoundOut
    <3>3. QED
      BY <1>6, <2>1, <3>2, GoesOn DEF ConfirmCommit, Answer
  <2>2. CASE ~ Burns(t)
    <3>1. FoundOut([op |-> "answer", user |-> u, outcome |-> "used"])
      BY DEF FoundOut
    <3>2. QED
      BY <1>6, <2>2, <3>1, GoesOn DEF ConfirmCommit, Answer
  <2>3. QED
    BY <2>1, <2>2
<1>7. ASSUME NEW p \in Proc, NEW u \in User, ResendFind(p, u) PROVE CallsConsistent'
  <2>1. FoundOut([op |-> "invalidate", user |-> u])
    BY <1>7 DEF FoundOut, ResendFind
  <2>2. QED
    BY <1>7, <2>1, GoesOn DEF ResendFind
<1>8. ASSUME NEW p \in Proc, ResendInvalidate(p) PROVE CallsConsistent'
  <2>1. call[p].user \in registered
    BY <1>0, <1>8 DEF ResendInvalidate, InFlight, CallsConsistent, HasRead
  <2>2. FoundOut([op |-> "create", user |-> call[p].user])
    BY <1>k, <2>1 DEF FoundOut
  <2>3. QED
    BY <1>8, <2>2, GoesOn DEF ResendInvalidate
<1>9. ASSUME NEW p \in Proc, NEW t \in Token, ResendCreate(p, t) PROVE CallsConsistent'
  <2>1. call[p].user \in User
    BY <1>0, <1>9, CallTypes DEF ResendCreate, ResendCall
  <2>2. token'[t] # None
    BY <1>0, <1>9, <2>1, MintedType DEF ResendCreate, TypeOK
  <2>3. FoundOut([op |-> "publish", token |-> t])
    BY <2>2 DEF FoundOut
  <2>4. QED
    BY <1>9, <2>3, GoesOn DEF ResendCreate
<1>10. ASSUME KillServer PROVE CallsConsistent'
    BY <1>10 DEF KillServer, CallsConsistent
<1>11. QED
    BY <1>1, <1>2, <1>3, <1>4, <1>5, <1>6, <1>7, <1>8, <1>9, <1>10
    DEF Next, Request, ConfirmEmail, ResendConfirmation, CreateConfirmedUser, Publish,
        EndOfRequest, AgeToken, StartServer, StopServer, vars

(* The server as the requests find it: none is served before the listener  *)
(* opens or after it closes.                                               *)
LEMMA ServingKept ==
    ASSUME ServerConsistent, UNCHANGED server, Drained' \/ ~ Drained \/ phase = "serving"
    PROVE  ServerConsistent'
    BY DEF ServerConsistent, HooksInOrder, server, Drained

LEMMA StartInOrder ==
    ASSUME ServerConsistent, StartServer
    PROVE  ServerConsistent'
<1>1. Drained'
  <2>1. phase \in {"down", "starting"}
    BY DEF StartServer, App!Boot, App!StartHook, App!StartFails
  <2>2. QED
    BY <2>1 DEF StartServer, ServerConsistent, Drained
<1>2. CASE App!Boot
    BY <1>1, <1>2 DEF App!Boot, ServerConsistent, HooksInOrder
<1>3. ASSUME NEW i \in 1 .. 5, App!StartHook(i) PROVE ServerConsistent'
  <2>1. open' = open \cup {ServerHooks[i]} /\ open = {ServerHooks[k] : k \in 1 .. i - 1}
    BY <1>3 DEF App!StartHook, App!NextToStart
  <2>2. HooksInOrder'
    BY <2>1, FiveHooks DEF HooksInOrder
  <2>3. phase' = "serving" => "http" \in open'
    BY <1>3, <2>1, FiveHooks DEF App!StartHook
  <2>4. QED
    BY <1>1, <2>2, <2>3 DEF ServerConsistent
<1>4. ASSUME NEW i \in 1 .. 5, App!StartFails(i) PROVE ServerConsistent'
    BY <1>1, <1>4 DEF App!StartFails, ServerConsistent, HooksInOrder
<1>5. QED
    BY <1>2, <1>3, <1>4, FiveHooks DEF StartServer

LEMMA StopInOrder ==
    ASSUME ServerConsistent, StopServer
    PROVE  ServerConsistent'
<1>1. CASE App!Signal
    BY <1>1 DEF App!Signal, ServerConsistent, HooksInOrder, StopServer, Drained
<1>2. ASSUME NEW i \in 1 .. 5, App!StopHook(i), ServerHooks[i] = "http" => Drained
      PROVE  ServerConsistent'
  <2>1. /\ open' = open \ {ServerHooks[i]}
        /\ \A k \in i + 1 .. 5 : ServerHooks[k] \notin open
        /\ phase = "stopping" /\ phase' # "serving"
    BY <1>2, FiveHooks DEF App!StopHook, App!NextToStop
  <2>2. HooksInOrder'
    BY <2>1, FiveHooks DEF HooksInOrder, ServerConsistent
  <2>3. Drained
    <3>1. CASE i = 5
      BY <1>2, <3>1, FiveHooks
    <3>2. CASE i # 5
      BY <2>1, <3>2, FiveHooks DEF ServerConsistent
    <3>3. QED
      BY <3>1, <3>2
  <2>4. Drained'
    BY <2>3 DEF StopServer, Drained
  <2>5. QED
    BY <2>1, <2>2, <2>4 DEF ServerConsistent
<1>3. QED
    BY <1>1, <1>2, FiveHooks DEF StopServer

LEMMA StepServer == IInv /\ [Next]_vars => ServerConsistent'
<1> SUFFICES ASSUME IInv, [Next]_vars PROVE ServerConsistent'
    OBVIOUS
<1> USE DEF tables, server, history
<1>0. TypeOK /\ ServerConsistent
    BY DEF IInv
<1>1. ASSUME UNCHANGED server, UNCHANGED call PROVE ServerConsistent'
    BY <1>0, <1>1, ServingKept DEF Drained
<1>2. ASSUME NEW p \in Proc, Request(p) PROVE ServerConsistent'
  <2>1. UNCHANGED server
    BY <1>2 DEF Request, ConfirmEmail, ResendConfirmation, Signup, Publish, ConfirmFind,
        ConfirmReplay, ConfirmCommit, ResendFind, ResendInvalidate, ResendCreate, EndOfRequest
  <2>2. call[p] # None \/ phase = "serving"
    BY <1>2 DEF Request, ConfirmEmail, ResendConfirmation, Signup, Publish, ConfirmFind,
        ConfirmReplay, ConfirmCommit, ResendFind, ResendInvalidate, ResendCreate, EndOfRequest,
        Accepted, InFlight
  <2>3. QED
    BY <1>0, <2>1, <2>2, ServingKept DEF Drained
<1>3. ASSUME KillServer PROVE ServerConsistent'
    BY <1>3 DEF KillServer, App!Kill, ServerConsistent, HooksInOrder, Drained
<1>4. QED
    BY <1>0, <1>1, <1>2, <1>3, StartInOrder, StopInOrder
    DEF Next, CreateConfirmedUser, AgeToken, vars

-----------------------------------------------------------------------------
(***************************************************************************)
(* The theorems.                                                           *)
(***************************************************************************)

LEMMA InitIInv == Init => IInv
<1> SUFFICES ASSUME Init PROVE IInv
    OBVIOUS
<1>1. TypeOK
    BY InitType
<1>2. TokensConsistent /\ SpentConsistent /\ SupersededTokensAreBurned /\ CallsConsistent
    BY DEF Init, TokensConsistent, SpentConsistent, SupersededTokensAreBurned, CallsConsistent
<1>3. ServerConsistent
    BY DEF Init, App!Init, ServerConsistent, HooksInOrder, Drained
<1>4. QED
    BY <1>1, <1>2, <1>3 DEF IInv

LEMMA StepIInv == IInv /\ [Next]_vars => IInv'
    BY StepType, StepTokens, StepSpent, StepSuperseded, StepCalls, StepServer DEF IInv

(* Tokens, requests and the server are consistent in every state that      *)
(* sign-ups, clicks, resends, stops and kills can reach (cmd/main.go and   *)
(* identity/application).                                                  *)
THEOREM Consistent == Spec => []IInv
    BY InitIInv, StepIInv, PTL DEF Spec

(* Every row, request and hook has its type. *)
THEOREM TypeCorrect == Spec => []TypeOK
<1>1. IInv => TypeOK
    BY DEF IInv
<1>2. QED
    BY <1>1, Consistent, PTL

(* ConfirmEmail reports success only of an account that is confirmed: its  *)
(* own transaction confirmed it, or replayOutcome saw that another had.    *)
THEOREM SuccessHolds == Spec => []SuccessIsTrue
<1>1. IInv => SuccessIsTrue
    BY DEF IInv, CallsConsistent, HasRead, SuccessIsTrue, InFlight
<1>2. QED
    BY <1>1, Consistent, PTL

(* InvalidateActiveForUser burns every live token the account has, and     *)
(* nothing brings one back.                                                *)
THEOREM SupersededBurned == Spec => []SupersededTokensAreBurned
<1>1. IInv => SupersededTokensAreBurned
    BY DEF IInv
<1>2. QED
    BY <1>1, Consistent, PTL

(* The order in which cmd/main.go appends its hooks keeps the stores and   *)
(* the broker open for as long as a request is served.                     *)
THEOREM ServedOpen == Spec => []ServedWhileOpen
<1>1. IInv => ServedWhileOpen
    BY DEF IInv, ServerConsistent, HooksInOrder, ServedWhileOpen
<1>2. QED
    BY <1>1, Consistent, PTL


-----------------------------------------------------------------------------
(***************************************************************************)
(* The refinement.                                                         *)
(***************************************************************************)

(* What ConfirmationLinks sees of the tables. *)
SeenAccounts == [u \in User |-> Account(u)]
SeenLinks    == [t \in Token |-> Link(t)]

(* A token that is minted is an open link. *)
LEMMA MintOffers ==
    ASSUME TypeOK, SpentConsistent, NEW u \in User, NEW t \in Token, Fresh(t),
           token' = [token EXCEPT ![t] = Minted(u)], UNCHANGED <<spent, stamp>>
    PROVE  /\ SeenLinks[t] = None
           /\ SeenLinks' = [SeenLinks EXCEPT ![t] = [user |-> u, state |-> "open"]]
<1>1. SeenLinks[t] = None
    BY DEF SeenLinks, Link, Fresh
<1>2. Link(t)' = [user |-> u, state |-> "open"]
    BY MintedType DEF TypeOK, Link, Minted
<1>3. \A s \in Token \ {t} : Link(s)' = Link(s)
    BY DEF TypeOK, Link
<1>4. QED
    BY <1>1, <1>2, <1>3 DEF SeenLinks

LEMMA SignupRegisters ==
    ASSUME IInv, NEW p \in Proc, NEW u \in User, NEW t \in Token, Signup(p, u, t)
    PROVE  Links!Register(u, t)
<1>1. /\ SeenLinks[t] = None
      /\ SeenLinks' = [SeenLinks EXCEPT ![t] = [user |-> u, state |-> "open"]]
    BY MintOffers DEF IInv, Signup, history
<1>2. SeenAccounts[u] = "absent" /\ SeenAccounts' = [SeenAccounts EXCEPT ![u] = "unconfirmed"]
    BY DEF IInv, TypeOK, Signup, SeenAccounts, Account
<1>3. QED
    BY <1>1, <1>2 DEF Links!Register, Links!Offer, SeenAccounts, SeenLinks, Signup, history

LEMMA CreateAdmits ==
    ASSUME IInv, NEW u \in User, CreateConfirmedUser(u)
    PROVE  Links!Admit(u)
<1>1. SeenAccounts[u] = "absent" /\ SeenAccounts' = [SeenAccounts EXCEPT ![u] = "confirmed"]
    BY DEF IInv, TypeOK, CreateConfirmedUser, SeenAccounts, Account
<1>2. SeenLinks' = SeenLinks
    BY DEF CreateConfirmedUser, SeenLinks, Link, history
<1>3. QED
    BY <1>1, <1>2 DEF Links!Admit, SeenAccounts, SeenLinks, CreateConfirmedUser, history

LEMMA CreateRenews ==
    ASSUME IInv, NEW p \in Proc, NEW t \in Token, ResendCreate(p, t)
    PROVE  call[p].user \in User /\ Links!Renew(call[p].user, t)
<1> DEFINE u == call[p].user
<1>1. u \in User /\ u \in registered
    BY CallTypes DEF IInv, ResendCreate, ResendCall, InFlight, CallsConsistent, HasRead
<1>2. /\ SeenLinks[t] = None
      /\ SeenLinks' = [SeenLinks EXCEPT ![t] = [user |-> u, state |-> "open"]]
    BY <1>1, MintOffers DEF IInv, ResendCreate, history
<1>3. SeenAccounts[u] # "absent" /\ SeenAccounts' = SeenAccounts
    BY <1>1 DEF ResendCreate, SeenAccounts, Account
<1>4. QED
    BY <1>1, <1>2, <1>3 DEF Links!Renew, Links!Offer, SeenAccounts, SeenLinks, ResendCreate, history

(* The tokens that the statement changes are open links of the account. *)
LEMMA InvalidateWithdraws ==
    ASSUME IInv, NEW p \in Proc, ResendInvalidate(p)
    PROVE  \E u \in User, S \in SUBSET Token : Links!Withdraw(u, S)
<1> DEFINE u == call[p].user
<1>0. TypeOK /\ SpentConsistent
    BY DEF IInv
<1>1. u \in User
    BY <1>0, CallTypes DEF ResendInvalidate, ResendCall
<1>2. PICK A \in Active(u) : token' = [t \in Token |-> IF t \in A THEN Used(t) ELSE token[t]]
    BY DEF ResendInvalidate
<1> DEFINE S == {t \in A : ~ token[t].used}
<1>3. \A t \in A : t \in Token /\ token[t] # None /\ token[t].user = u
    BY <1>0, <1>1, <1>2, ActiveTokens DEF Issued
<1>4. \A t \in S : Link(t) = [user |-> u, state |-> "open"]
    BY <1>3 DEF Link
<1>5. ASSUME NEW t \in S PROVE Link(t)' = [user |-> u, state |-> "withdrawn"]
  <2>1. token'[t] = Used(t) /\ token'[t] # None
    BY <1>0, <1>2, <1>3, UsedType
  <2>2. t \notin spent'
    BY <1>0 DEF SpentConsistent, ResendInvalidate
  <2>3. QED
    BY <1>0, <1>3, <2>1, <2>2, UsedType DEF Link
<1>6. ASSUME NEW t \in Token \ S PROVE Link(t)' = Link(t)
  <2>1. CASE t \in A
    <3>1. token'[t] = Used(t) /\ token'[t] # None /\ token[t].used
      BY <1>0, <1>2, <1>3, <2>1, UsedType
    <3>2. token'[t].used /\ token'[t].user = token[t].user
      BY <1>0, <1>3, <2>1, <3>1, UsedType
    <3>3. QED
      BY <1>3, <2>1, <3>1, <3>2 DEF Link, ResendInvalidate
  <2>2. CASE t \notin A
    BY <1>2, <2>2 DEF Link, ResendInvalidate
  <2>3. QED
    BY <2>1, <2>2
<1>7. S \in SUBSET Token
    BY <1>3
<1>8. S \subseteq Links!OpenFor(u)
    BY <1>4, <1>7 DEF Links!OpenFor
<1>9. SeenLinks' = [t \in Token |->
                      IF t \in S THEN [user |-> u, state |-> "withdrawn"] ELSE SeenLinks[t]]
    BY <1>5, <1>6 DEF SeenLinks
<1>10. UNCHANGED <<SeenAccounts, stamp>>
    BY DEF ResendInvalidate, SeenAccounts, Account
<1>11. Links!Withdraw(u, S)
    BY <1>8, <1>9, <1>10 DEF Links!Withdraw, SeenAccounts, SeenLinks
<1>12. QED
    BY <1>1, <1>7, <1>11

LEMMA CommitRedeems ==
    ASSUME IInv, NEW p \in Proc, ConfirmCommit(p), Burns(call[p].token)
    PROVE  \E u \in User, t \in Token : Links!Redeem(u, t)
<1>0. TypeOK /\ TokensConsistent /\ SpentConsistent /\ CallsConsistent
    BY DEF IInv
<1>1. PICK t \in Token : t = call[p].token /\ token[t] # None
    BY <1>0, CallTypes DEF ConfirmCommit, InFlight, ConfirmCall, CallsConsistent, HasRead
<1> DEFINE u == token[t].user
<1>2. u \in User /\ u \in registered
    BY <1>0, <1>1, RowType DEF TokenRow, TokensConsistent
<1>3. Link(t) = [user |-> u, state |-> "open"]
    BY <1>1 DEF Burns, Link
<1>4. token' = [token EXCEPT ![t] = Used(t)] /\ spent' = spent \cup {t}
    BY <1>1 DEF ConfirmCommit
<1>5. Link(t)' = [user |-> u, state |-> "redeemed"]
    BY <1>0, <1>1, <1>4, UsedType DEF TypeOK, Link
<1>6. ASSUME NEW s \in Token \ {t} PROVE Link(s)' = Link(s)
    BY <1>0, <1>4, <1>6 DEF TypeOK, Link
<1>7. SeenLinks' = [SeenLinks EXCEPT ![t] = [user |-> u, state |-> "redeemed"]]
    BY <1>1, <1>5, <1>6 DEF SeenLinks
<1>8. SeenAccounts' = [SeenAccounts EXCEPT ![u] = "confirmed"]
    BY <1>0, <1>1, <1>2 DEF ConfirmCommit, SeenAccounts, Account, TypeOK
<1>9. stamp' = IF SeenAccounts[u] = "confirmed" THEN stamp ELSE [stamp EXCEPT ![u] = t]
    BY <1>0, <1>1, <1>2 DEF ConfirmCommit, Stamps, SeenAccounts, Account, TypeOK
<1>10. t \in Links!OpenFor(u)
    BY <1>1, <1>3 DEF Links!OpenFor
<1>11. Links!Redeem(u, t)
    BY <1>7, <1>8, <1>9, <1>10 DEF Links!Redeem, SeenAccounts, SeenLinks
<1>12. QED
    BY <1>1, <1>2, <1>11

(* Age is not seen. *)
LEMMA AgeStutters ==
    ASSUME IInv, NEW t \in Token, AgeToken(t)
    PROVE  UNCHANGED Links!vars
<1>0. TypeOK
    BY DEF IInv
<1>1. token[t] \in TokenRow
    BY <1>0, RowType DEF AgeToken
<1>2. /\ token'[t] \in TokenRow
      /\ token'[t].user = token[t].user
      /\ token'[t].used = token[t].used
    BY <1>0, <1>1 DEF AgeToken, TypeOK, TokenRow, Age
<1>3. \A s \in Token \ {t} : token'[s] = token[s]
    BY <1>0 DEF AgeToken, TypeOK
<1>4. \A s \in Token : Link(s)' = Link(s)
    BY <1>0, <1>1, <1>2, <1>3 DEF Link, AgeToken, history
<1>5. QED
    BY <1>4 DEF Links!vars, AgeToken, Account, history

LEMMA QuietStutters ==
    ASSUME UNCHANGED <<tables, history>>
    PROVE  UNCHANGED Links!vars
    BY DEF tables, history, Links!vars, Account, Link

LEMMA StepRefines == IInv /\ [Next]_vars => [Links!Next]_(Links!vars)
<1> SUFFICES ASSUME IInv, [Next]_vars PROVE [Links!Next]_(Links!vars)
    OBVIOUS
<1>1. ASSUME NEW p \in Proc, Request(p) PROVE [Links!Next]_(Links!vars)
  <2>1. ASSUME NEW u \in User, NEW t \in Token, Signup(p, u, t) PROVE Links!Next
    BY <2>1, SignupRegisters DEF Links!Next
  <2>2. ASSUME ConfirmCommit(p) PROVE [Links!Next]_(Links!vars)
    <3>1. CASE Burns(call[p].token)
      BY <2>2, <3>1, CommitRedeems DEF Links!Next
    <3>2. CASE ~ Burns(call[p].token)
      BY <2>2, <3>2, QuietStutters DEF ConfirmCommit
    <3>3. QED
      BY <3>1, <3>2
  <2>3. ASSUME ResendInvalidate(p) PROVE Links!Next
    BY <2>3, InvalidateWithdraws DEF Links!Next
  <2>4. ASSUME NEW t \in Token, ResendCreate(p, t) PROVE Links!Next
    BY <2>4, CreateRenews DEF Links!Next
  <2>5. ASSUME \/ Publish(p)
               \/ \E t \in Token : ConfirmFind(p, t)
               \/ ConfirmReplay(p)
               \/ \E u \in User : ResendFind(p, u)
               \/ EndOfRequest(p)
        PROVE  UNCHANGED Links!vars
    BY <2>5, QuietStutters DEF Publish, ConfirmFind, ConfirmReplay, ResendFind, EndOfRequest
  <2>6. QED
    BY <1>1, <2>1, <2>2, <2>3, <2>4, <2>5 DEF Request, ConfirmEmail, ResendConfirmation
<1>2. ASSUME NEW u \in User, CreateConfirmedUser(u) PROVE Links!Next
    BY <1>2, CreateAdmits DEF Links!Next
<1>3. ASSUME NEW t \in Token, AgeToken(t) PROVE UNCHANGED Links!vars
    BY <1>3, AgeStutters
<1>4. ASSUME StartServer \/ StopServer \/ KillServer \/ UNCHANGED vars
      PROVE  UNCHANGED Links!vars
    BY <1>4, QuietStutters DEF StartServer, StopServer, KillServer, vars
<1>5. QED
    BY <1>1, <1>2, <1>3, <1>4 DEF Next

LEMMA InitRefines == Init => Links!Init
    BY DEF Init, Links!Init, Account, Link

(* Sign-up, confirmation and resending implement the links that            *)
(* ConfirmationLinks promises, with requests interleaved and cut short     *)
(* anywhere.                                                               *)
THEOREM ConfirmationImplementsLinks == Spec => ImplementsLinks
<1>1. Spec => [][Links!Next]_(Links!vars)
    BY Consistent, StepRefines, PTL DEF Spec
<1>2. QED
    BY <1>1, InitRefines, PTL DEF Spec, ImplementsLinks, Links!Spec

=============================================================================
