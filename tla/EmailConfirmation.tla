-------------------------- MODULE EmailConfirmation --------------------------
(***************************************************************************)
(* Confirming an e-mail address: sign-up, the confirmation link and its    *)
(* resending (internal/core/identity/application), in a server that is     *)
(* started, stopped and killed meanwhile.                                  *)
(*                                                                         *)
(* Two tables hold the state, users and email_confirmation_tokens.  A      *)
(* confirmation reads the token outside, and burns it inside, a            *)
(* transaction; resending runs two statements with no transaction around   *)
(* them.  The row locks taken by the UPDATEs of the transaction make it    *)
(* atomic towards the others, so it is one action, which re-reads what its *)
(* WHERE clauses re-read.                                                  *)
(*                                                                         *)
(* The link leaves the system once, in the event that is published after   *)
(* the commit: the table holds its digest only.  An event that is not      *)
(* accepted is logged and forgotten, and one whose acceptance is not       *)
(* learned of may still arrive; what was accepted reaches the user at any  *)
(* later time and in any order.                                            *)
(***************************************************************************)
EXTENDS Naturals, Sequences

CONSTANTS
    User,       \* accounts
    Token,      \* confirmation tokens, numbered as they are minted
    Proc,       \* requests being served
    None        \* the value of a row or request that does not exist

ASSUME TokenAssumption == Token \subseteq Nat

VARIABLES
    registered, \* rows of users,
    confirmed,  \*   and those of them whose confirmed_at is set
    token,      \* rows of email_confirmation_tokens
    mailed,     \* the tokens whose event the broker has accepted
    call,       \* requests in flight, with what they have read or answered
    phase,      \* the server, as
    open,       \*   AppLifecycle sees it
    (***********************************************************************)
    (* History.                                                            *)
    (***********************************************************************)
    stamp,      \* the token whose use set confirmed_at
    spent,      \* the tokens that were used to confirm
    superseded  \* the tokens that existed when their account had a resend

history == <<stamp, spent, superseded>>
tables  == <<registered, confirmed, token>>
server  == <<phase, open>>
vars    == <<tables, mailed, call, server, history>>

(* Regression: the routes are listed before what they use. *)
HttpFirst == <<"http", "db", "redis", "kafka", "tracer">>

(* The hooks of cmd/main.go.  The stores come first, the routes last. *)
ServerHooks == <<"db", "redis", "kafka", "tracer", "http">>

App == INSTANCE AppLifecycle WITH Hooks <- ServerHooks, Pinged <- {"db", "redis"}

(* A token is live, about as old as its expiry (the database clock and the *)
(* application clocks may disagree on it), or expired.                     *)
Age == {"live", "borderline", "expired"}

TokenRow == [user : User, age : Age, used : BOOLEAN]

ConfirmCall == [op : {"replay", "commit"}, token : Token]
AnswerCall  == [op : {"answer"}, user : User, outcome : {"confirmed", "used", "expired"}]
ResendCall  == [op : {"invalidate", "create"}, user : User]
PublishCall == [op : {"publish"}, token : Token]
Call == ConfirmCall \cup AnswerCall \cup ResendCall \cup PublishCall

(* A row or request is told apart from its absence. *)
ASSUME NoneAssumption == None \notin TokenRow \cup Call

Init ==
    /\ registered = {}
    /\ confirmed = {}
    /\ token     = [t \in Token |-> None]
    /\ mailed    = {}
    /\ call      = [p \in Proc |-> None]
    /\ App!Init
    /\ stamp     = [u \in User |-> None]
    /\ spent     = {}
    /\ superseded = {}

InFlight(p, op) == call[p] # None /\ call[p].op = op
Finish(p) == call' = [call EXCEPT ![p] = None]
Proceed(p, c) == call' = [call EXCEPT ![p] = c]
Answer(p, u, outcome) == Proceed(p, [op |-> "answer", user |-> u, outcome |-> outcome])

(* A request comes in: the listener is open until the server stops. *)
Accepted(p) == phase = "serving" /\ call[p] = None

Issued(u) == {t \in Token : token[t] # None /\ token[t].user = u}

(* Regression: a token is inserted first and then invalidated with the rest. *)
MintedUsed(u) == [user |-> u, age |-> "live", used |-> TRUE]

Minted(u) == [user |-> u, age |-> "live", used |-> FALSE]

(* The next token that is drawn. *)
Fresh(t) ==
    /\ token[t] = None
    /\ \A s \in Token : s < t => token[s] # None

-----------------------------------------------------------------------------
(***************************************************************************)
(* Sign-up, and the mails.                                                 *)
(***************************************************************************)

(* The sign-up transaction: the user and the first token. *)
Signup(p, u, t) ==
    /\ Accepted(p)
    /\ u \notin registered
    /\ Fresh(t)
    /\ registered' = registered \cup {u}
    /\ token'     = [token EXCEPT ![t] = Minted(u)]
    /\ Proceed(p, [op |-> "publish", token |-> t])
    /\ UNCHANGED <<confirmed, mailed, server, history>>

(* Accepting an invitation makes a user who is confirmed from the start. *)
CreateConfirmedUser(u) ==
    /\ "http" \in open
    /\ u \notin registered
    /\ registered' = registered \cup {u}
    /\ confirmed'  = confirmed \cup {u}
    /\ UNCHANGED <<token, mailed, call, server, history>>

(* PublishEmailConfirmationRequested; whatever becomes of it, the request  *)
(* that published succeeds.                                                *)
Publish(p) ==
    /\ InFlight(p, "publish")
    /\ mailed' \in {mailed, mailed \cup {call[p].token}}
    /\ Finish(p)
    /\ UNCHANGED <<tables, server, history>>

-----------------------------------------------------------------------------
(***************************************************************************)
(* ConfirmEmail.                                                           *)
(***************************************************************************)

(* FindByDigest and the two checks, expiry first, for a link that a user   *)
(* has been sent.  A link nobody was sent finds nothing.                   *)
ConfirmFind(p, t) ==
    /\ Accepted(p)
    /\ t \in mailed
    /\ \/ /\ token[t].age # "live"
          /\ Answer(p, token[t].user, "expired")
       \/ /\ token[t].age # "expired"
          /\ Proceed(p, [op |-> IF token[t].used THEN "replay" ELSE "commit", token |-> t])
    /\ UNCHANGED <<tables, mailed, server, history>>

(* Regression: every replay is taken for a second click. *)
ReplayAlwaysConfirmed(u) == "confirmed"

(* replayOutcome: a used token is fine if the account is confirmed. *)
ReplayOutcome(u) == IF u \in confirmed THEN "confirmed" ELSE "used"

ConfirmReplay(p) ==
    /\ InFlight(p, "replay")
    /\ LET u == token[call[p].token].user IN Answer(p, u, ReplayOutcome(u))
    /\ UNCHANGED <<tables, mailed, server, history>>

(* Regression: an update of no row goes unnoticed. *)
RowsIgnored(t) == TRUE

(* MarkUsed updates a row: WHERE used_at IS NULL. *)
Burns(t) == ~ token[t].used

(* MarkConfirmed updates a row: WHERE confirmed_at IS NULL. *)
Stamps(u) == u \notin confirmed

(* Regression: the row of the token is rewritten with its columns only. *)
UsedWithoutAge(t) == [user |-> token[t].user, used |-> TRUE]

Used(t) == [token[t] EXCEPT !.used = TRUE]

(* MarkConfirmed and MarkUsed; when the token has been used since it was   *)
(* read, both are rolled back.                                             *)
ConfirmCommit(p) ==
    /\ InFlight(p, "commit")
    /\ LET t == call[p].token
           u == token[t].user
       IN IF Burns(t)
          THEN /\ confirmed' = confirmed \cup {u}
               /\ token'     = [token EXCEPT ![t] = Used(t)]
               /\ stamp'     = IF Stamps(u) THEN [stamp EXCEPT ![u] = t] ELSE stamp
               /\ spent'     = spent \cup {t}
               /\ Answer(p, u, "confirmed")
               /\ UNCHANGED <<registered, superseded>>
          ELSE /\ Answer(p, u, "used")
               /\ UNCHANGED <<tables, history>>
    /\ UNCHANGED <<mailed, server>>

-----------------------------------------------------------------------------
(***************************************************************************)
(* ResendConfirmation.                                                     *)
(***************************************************************************)

(* FindByEmail: an unknown address or a confirmed one needs no token, and  *)
(* the caller is told nothing of either.                                   *)
ResendFind(p, u) ==
    /\ Accepted(p)
    /\ u \in registered \ confirmed
    /\ Proceed(p, [op |-> "invalidate", user |-> u])
    /\ UNCHANGED <<tables, mailed, server, history>>

(* Regression: the comparison with now() the wrong way round. *)
ActiveReversed(u) ==
    {S \in SUBSET Issued(u) : \A t \in Issued(u) :
        /\ token[t].age = "live" => t \notin S
        /\ token[t].age = "expired" => t \in S}

(* user_id = u AND expires_at > now(), as the database clock has it. *)
Active(u) ==
    {S \in SUBSET Issued(u) : \A t \in Issued(u) :
        /\ token[t].age = "live" => t \in S
        /\ token[t].age = "expired" => t \notin S}

(* InvalidateActiveForUser. *)
ResendInvalidate(p) ==
    /\ InFlight(p, "invalidate")
    /\ LET u == call[p].user
       IN /\ \E S \in Active(u) :
                token' = [t \in Token |-> IF t \in S THEN Used(t) ELSE token[t]]
          /\ Proceed(p, [op |-> "create", user |-> u])
          /\ superseded' = superseded \cup Issued(u)
    /\ UNCHANGED <<registered, confirmed, mailed, server, stamp, spent>>

(* Create; its mail is published next. *)
ResendCreate(p, t) ==
    /\ InFlight(p, "create")
    /\ Fresh(t)
    /\ token' = [token EXCEPT ![t] = Minted(call[p].user)]
    /\ Proceed(p, [op |-> "publish", token |-> t])
    /\ UNCHANGED <<registered, confirmed, mailed, server, history>>

-----------------------------------------------------------------------------

(* The answer is delivered, or the request stops where it is. *)
EndOfRequest(p) ==
    /\ call[p] # None
    /\ Finish(p)
    /\ UNCHANGED <<tables, mailed, server, history>>

(* Time passes, for all tokens alike: they have one lifetime, so that of   *)
(* an account's tokens the one minted first is never the younger one.      *)
AgeToken(t) ==
    /\ token[t] # None
    /\ token[t].age # "expired"
    /\ \A s \in Token : s < t => token[s].age = "expired" \/ token[s].age # token[t].age
    /\ token' = [token EXCEPT ![t] = [token[t] EXCEPT !.age =
                    IF token[t].age = "live" THEN "borderline" ELSE "expired"]]
    /\ UNCHANGED <<registered, confirmed, mailed, call, server, history>>

(* The hooks of the server start, or stop again because one failed. *)
StartServer ==
    /\ \/ App!Boot
       \/ \E i \in DOMAIN ServerHooks : App!StartHook(i) \/ App!StartFails(i)
    /\ UNCHANGED <<tables, mailed, call, history>>

(* Shutdown closes the listener and waits for the requests in flight. *)
Drained == \A p \in Proc : call[p] = None

StopServer ==
    /\ \/ App!Signal
       \/ \E i \in DOMAIN ServerHooks :
             /\ ServerHooks[i] = "http" => Drained
             /\ App!StopHook(i)
    /\ UNCHANGED <<tables, mailed, call, history>>

(* The requests in flight are lost with the process. *)
KillServer ==
    /\ App!Kill
    /\ call' = [p \in Proc |-> None]
    /\ UNCHANGED <<tables, mailed, history>>

-----------------------------------------------------------------------------

ConfirmEmail(p) ==
    \/ \E t \in Token : ConfirmFind(p, t)
    \/ ConfirmReplay(p)
    \/ ConfirmCommit(p)

ResendConfirmation(p) ==
    \/ \E u \in User : ResendFind(p, u)
    \/ ResendInvalidate(p)
    \/ \E t \in Token : ResendCreate(p, t)

Request(p) ==
    \/ \E u \in User, t \in Token : Signup(p, u, t)
    \/ ConfirmEmail(p)
    \/ ResendConfirmation(p)
    \/ Publish(p)
    \/ EndOfRequest(p)

Next ==
    \/ \E p \in Proc : Request(p)
    \/ \E u \in User : CreateConfirmedUser(u)
    \/ \E t \in Token : AgeToken(t)
    \/ StartServer
    \/ StopServer
    \/ KillServer

Spec == Init /\ [][Next]_vars

(* The server is up again and again; a request does not hang for ever; a   *)
(* user who has been sent a link clicks on it again and again; and not     *)
(* every one of these requests is cut short before it commits.             *)
Fairness ==
    /\ []<>(phase = "serving")
    /\ \A p \in Proc : WF_vars(EndOfRequest(p))
    /\ SF_vars(\E p \in Proc : ConfirmCommit(p))
    /\ \A t \in Token : SF_vars(\E p \in Proc : ConfirmFind(p, t))

FairSpec == Spec /\ Fairness

-----------------------------------------------------------------------------
(***************************************************************************)
(* What ConfirmationLinks sees.                                            *)
(***************************************************************************)

Account(u) ==
    IF u \notin registered THEN "absent"
    ELSE IF u \in confirmed THEN "confirmed" ELSE "unconfirmed"

(* A used token confirmed an account, or was superseded. *)
Link(t) ==
    IF token[t] = None THEN None
    ELSE [user  |-> token[t].user,
          state |-> IF ~ token[t].used THEN "open"
                    ELSE IF t \in spent THEN "redeemed" ELSE "withdrawn"]

Links == INSTANCE ConfirmationLinks WITH
            account    <- [u \in User |-> Account(u)],
            link       <- [t \in Token |-> Link(t)],
            creditedTo <- stamp

-----------------------------------------------------------------------------
(***************************************************************************)
(* Properties.                                                             *)
(***************************************************************************)

(* Every row, request and hook has its type. *)
TypeOK ==
    /\ registered \subseteq User
    /\ confirmed  \subseteq registered
    /\ token     \in [Token -> TokenRow \cup {None}]
    /\ mailed    \subseteq Token
    /\ call      \in [Proc -> Call \cup {None}]
    /\ App!TypeOK
    /\ stamp     \in [User -> Token \cup {None}]
    /\ spent     \subseteq Token
    /\ superseded \subseteq Token

(* However clicks, resends and crashes interleave, tokens behave like the  *)
(* links of ConfirmationLinks: an account is confirmed by a token of its   *)
(* own that was still open, the token is burned in the same step, a        *)
(* superseded one never confirms anything, not even in a request that read *)
(* it before the resend, and the time of the first confirmation stays.     *)
ImplementsLinks == Links!Spec

(* A request that reports success speaks of a confirmed account.           *)
SuccessIsTrue ==
    \A p \in Proc : InFlight(p, "answer") /\ call[p].outcome = "confirmed" =>
        call[p].user \in confirmed

(* Resending burns every token the account had when it did so, so that     *)
(* only the newest mail still works; tokens past their expiry are left to  *)
(* the expiry check.                                                       *)
SupersededTokensAreBurned ==
    \A t \in superseded : token[t].age = "live" => token[t].used

(* While a request is served, the stores it works on and the broker it     *)
(* publishes to are open: a stop in good order never takes them away from  *)
(* it, so that what it has committed is published too.                     *)
ServedWhileOpen ==
    ~ Drained => {"db", "redis", "kafka"} \subseteq open

(* The link works, as far as the user who was sent it can tell. *)
Delivered(t) ==
    /\ t \in mailed \ superseded
    /\ token[t].age = "live"

(* A user who has been sent a link that is live and that no resend has     *)
(* superseded is confirmed in the end, or the link is superseded or ages:  *)
(* however many events were lost before, however often the requests die    *)
(* between reading the token and committing, and however often the server  *)
(* is stopped or killed.                                                   *)
DeliveredLinkConfirms ==
    \A t \in Token : Delivered(t) ~> ~ Delivered(t) \/ token[t].user \in confirmed

=============================================================================
