------------------------------- MODULE Logins --------------------------------
(* Logging players in with a password: nLoginProcess and nAuthentication of   *)
(* nAuthentication.cpp, the callbacks of ePlayer.cpp that drive them, and the *)
(* client's side.  A login process bounces between the main thread and        *)
(* background threads (TaskQueue) that talk to the authority, with a question *)
(* to the client in between.  Processes hang on the machine, the IP address,  *)
(* of the client; each client has one player here.                            *)
EXTENDS TaskQueue

CONSTANTS Clients,
          Machines,
          MachineOf     \* the machine each client connects from

ASSUME LoginAssumption == MachineOf \in [Clients -> Machines]

\* The steps of a login's threads apart from those of TaskQueue.
ASSUME WorkAssumption == Work = {"fetch", "query", "authorize", "check"}

VARIABLES online,      \* is the client logged in, with its player?
          wanted,      \* ePlayerNetID::loginWanted
          authed,      \* ePlayerNetID::IsAuthenticated
          failedLast,  \* nLoginPersistence::userAuthFailedLastTime
          login,       \* the login processes, Jobs of TaskQueue
          listed,      \* those that are decorators of their machine
          asked,       \* the request a client is asking its user about
          requests,    \* requests under way to the clients
          answers      \* their answers under way

playerVars == <<online, wanted, authed, failedLast>>
loginVars == <<login, listed>>
netVars == <<asked, requests, answers>>
vars == <<taskVars, playerVars, loginVars, netVars>>

\* What the user and his client make of a request.  Cancelling it and an answer
\* for another server's address have the same effect; whether a password that is
\* given is right is up to the authority.
Kinds == {"refused", "given"}

Unused == [user |-> Nobody]
Fresh == {p \in Jobs : login[p] = Unused}

NewLogin(c) ==
  [user |-> c, of |-> Nobody, kind |-> "refused", automatic |-> FALSE,
   success |-> FALSE]

LoginType ==
  {Unused}
  \cup [user : Clients, of : Jobs \cup {Nobody}, kind : Kinds,
        automatic : BOOLEAN, success : BOOLEAN]

Requests == [to : Clients, of : Jobs, failLast : BOOLEAN]
Answers == [from : Clients, of : Jobs \cup {Nobody}, kind : Kinds,
            automatic : BOOLEAN]
NoQuestion == [of |-> Nobody]
Questions == [of : Jobs, failLast : BOOLEAN, spoiled : BOOLEAN]

\* The state has the right types.
TypeOK ==
  /\ TaskTypeOK
  /\ online \in [Clients -> BOOLEAN]
  /\ wanted \in [Clients -> BOOLEAN]
  /\ authed \in [Clients -> BOOLEAN]
  /\ failedLast \in [Machines -> BOOLEAN]
  /\ login \in [Jobs -> LoginType]
  /\ listed \subseteq Jobs \ Fresh
  /\ asked \in [Clients -> Questions \cup {NoQuestion}]
  /\ requests \subseteq Requests
  /\ answers \subseteq Answers

Init ==
  /\ TaskInit
  /\ online = [c \in Clients |-> FALSE]
  /\ wanted = [c \in Clients |-> FALSE]
  /\ authed = [c \in Clients |-> FALSE]
  /\ failedLast = [m \in Machines |-> FALSE]
  /\ login = [p \in Jobs |-> Unused]
  /\ listed = {}
  /\ asked = [c \in Clients |-> NoQuestion]
  /\ requests = {}
  /\ answers = {}

----------------------------------------------------------------------------
\* Starting and ending processes, in the main thread.

\* nLoginProcess::Find
On(m) == {p \in listed : MachineOf[login[p].user] = m}

FirstFree(p) ==
  CHOOSE s \in Slots : thread[<<p, s>>] = <<>>

\* nLoginProcess::Init for the clients of a set, when the processes of "gone"
\* have left their list.
Start(clients, gone) ==
  \E id \in [clients -> Fresh] :
    LET new == {id[c] : c \in clients} IN
    /\ \A c, d \in clients : c # d => id[c] # id[d]
    /\ login' = [p \in Jobs |-> IF p \in new
                  THEN NewLogin(CHOOSE c \in clients : id[c] = p)
                  ELSE login[p]]
    /\ listed' = (listed \ gone) \cup new
    /\ thread' = [t \in Threads |-> IF t[1] \in new /\ t[2] = FirstFree(t[1])
                   THEN <<"fetch">> ELSE thread[t]]

\* Mutant: logins and logouts leave the processes alone.
NobodyKilled(m) == {}

\* sn_Reset, which is called when a client of the machine logs in and when one
\* logs out.
Killed(m) == On(m)

\* A client connects and its player joins.
Join(c) ==
  /\ main = "game" /\ ~online[c]
  /\ online' = [online EXCEPT ![c] = TRUE]
  /\ listed' = listed \ Killed(MachineOf[c])
  /\ UNCHANGED <<taskVars, wanted, authed, failedLast, login, netVars>>

\* A client leaves, with its player and what it has under way.
Leave(c) ==
  /\ main = "game" /\ online[c]
  /\ online' = [online EXCEPT ![c] = FALSE]
  /\ wanted' = [wanted EXCEPT ![c] = FALSE]
  /\ authed' = [authed EXCEPT ![c] = FALSE]
  /\ listed' = listed \ Killed(MachineOf[c])
  /\ asked' = [asked EXCEPT ![c] = NoQuestion]
  /\ requests' = {m \in requests : m.to # c}
  /\ answers' = {m \in answers : m.from # c}
  /\ UNCHANGED <<taskVars, failedLast, login>>

\* se_LoginRequestHandler, or the player's own /login command: the process
\* starts unless the machine has one, or else the wish is kept.
WantLogin(c) ==
  /\ main = "game" /\ online[c] /\ ~authed[c]
  /\ IF On(MachineOf[c]) = {} /\ Fresh # {}
     THEN /\ Start({c}, {})
          /\ wanted' = [wanted EXCEPT ![c] = FALSE]
     ELSE /\ wanted' = [wanted EXCEPT ![c] = TRUE]
          /\ UNCHANGED <<loginVars, thread>>
  /\ UNCHANGED <<todoVars, syncVars, main, online, authed, failedLast, netVars>>

\* RequestScheduledLogins: every wish for a machine without a process, one for
\* each machine, is granted, in some order.  The processes of "gone" are gone by
\* now, and client "redo", if any, has started over first.
Schedule(gone, redo) ==
  LET busy == {MachineOf[login[p].user] : p \in listed \ gone}
              \cup {MachineOf[c] : c \in redo}
      wishes == {c \in Clients : wanted[c] /\ MachineOf[c] \notin busy}
      grants == {S \in SUBSET wishes :
                   \A c, d \in S : c # d => MachineOf[c] # MachineOf[d]}
      room == {S \in grants : Cardinality(S \cup redo) <= Cardinality(Fresh)}
  IN  IF room = {}
      THEN /\ Start({}, gone)
           /\ UNCHANGED wanted
      ELSE \E S \in room :
           /\ \A T \in room : Cardinality(T) <= Cardinality(S)
           /\ Start(S \cup redo, gone)
           /\ wanted' = [c \in Clients |-> wanted[c] /\ c \notin S]

\* nLoginProcess::Finish and ResultCallback.  A process that left its list
\* before is not finished again.  A player of the same name may be logged in
\* already; then nothing more happens.
Finish(p) ==
  \/ /\ p \notin listed
     /\ UNCHANGED <<playerVars, loginVars, thread>>
  \/ LET c == login[p].user IN
     /\ p \in listed
     /\ failedLast' = [failedLast EXCEPT ![MachineOf[c]] = ~login[p].success]
     /\ UNCHANGED online
     /\ \/ /\ \E d \in Clients : authed[d]
           /\ Start({}, {p})
           /\ UNCHANGED <<authed, wanted>>
        \/ /\ login[p].success
           /\ authed' = [authed EXCEPT ![c] = TRUE]
           /\ Schedule({p}, {})
        \/ /\ ~login[p].success
           /\ Schedule({p}, IF login[p].automatic THEN {c} ELSE {})
           /\ UNCHANGED authed

FinishTask ==
  /\ TakeTask
  /\ Finish(Head(pending))
  /\ UNCHANGED netVars

\* HandlePasswordAnswer and ProcessClientAnswer: the answer goes to the process
\* of the sender's machine, if there is one.
ReceiveAnswer(m) ==
  /\ main = "game"
  /\ answers' = answers \ {m}
  /\ IF On(MachineOf[m.from]) = {}
     THEN UNCHANGED <<login, thread>>
     ELSE \E p \in On(MachineOf[m.from]) :
            /\ \E s \in Slots : thread[<<p, s>>] = <<>>
            /\ login' = [login EXCEPT ![p].of = m.of, ![p].kind = m.kind,
                           ![p].automatic = m.automatic, ![p].success = FALSE]
            /\ thread' =
                 [thread EXCEPT ![<<p, FirstFree(p)>>] = <<"authorize">>]
  /\ UNCHANGED <<todoVars, syncVars, main, playerVars, listed, asked, requests>>

----------------------------------------------------------------------------
\* The background threads of a process.

\* IsActive
Active(p) == p \in listed

\* Mutant: nothing is reported.
ReportsNothing == <<>>

\* ReportAuthorityError, seen from the thread that goes on after it.
Reports == Schedules

\* FetchInfoFromAuthority: the authority may refuse or not be found; then the
\* thread reports that and still waits for the main thread once.
FetchInfo(t) ==
  LET p == t[1] IN
  /\ At(t, "fetch")
  /\ \E steps \in IF Active(p)
                   THEN {Reports \o Enters \o Leaves,
                         Enters \o <<"query">> \o Leaves}
                   ELSE {Schedules} :
       thread' = [thread EXCEPT ![t] = steps]
  /\ UNCHANGED <<todoVars, syncVars, main, playerVars, loginVars, netVars>>

\* Mutant: it asks for processes that were killed, too.
QueryAnyway(t) ==
  LET p == t[1] IN
  /\ At(t, "query")
  /\ requests' = requests \cup
       {[to |-> login[p].user, of |-> p,
         failLast |-> failedLast[MachineOf[login[p].user]]]}
  /\ Goes(t)
  /\ UNCHANGED <<todoVars, syncVars, main>>
  /\ UNCHANGED <<playerVars, loginVars, asked, answers>>

\* QueryFromClient, while the main thread stands still.
Query(t) ==
  LET p == t[1] IN
  /\ At(t, "query")
  /\ requests' = IF Active(p)
                 THEN requests \cup
                      {[to |-> login[p].user, of |-> p,
                        failLast |-> failedLast[MachineOf[login[p].user]]]}
                 ELSE requests
  /\ Goes(t)
  /\ UNCHANGED <<todoVars, syncVars, main>>
  /\ UNCHANGED <<playerVars, loginVars, asked, answers>>

\* Authorize.  A process that is no longer active is aborted, and goes on.
Authorize(t) ==
  LET p == t[1]
      abort == IF Active(p) THEN <<>> ELSE Schedules
      rest == IF login[p].kind = "refused" THEN Reports
              ELSE <<"check">> \o Enters \o Schedules \o Leaves
  IN  /\ At(t, "authorize")
      /\ thread' = [thread EXCEPT ![t] = abort \o rest]
      /\ UNCHANGED <<todoVars, syncVars, main, playerVars, loginVars, netVars>>

\* nKrawall::CheckScrambledPassword asks the authority, which may fail to
\* answer.  An answer to another request was scrambled with another salt.
Check(t) ==
  LET p == t[1] IN
  /\ At(t, "check")
  /\ \E success \in {FALSE, login[p].of = p} :
       login' = [login EXCEPT ![p].success = success]
  /\ Goes(t)
  /\ UNCHANGED <<todoVars, syncVars, main, playerVars, listed, netVars>>

----------------------------------------------------------------------------
\* Clients.

\* HandlePasswordRequest: one question at a time.  A request that arrives while
\* the user is asked gets no answer, and resets what the user is asked for.
ReceiveRequest(m) ==
  /\ requests' = requests \ {m}
  /\ asked' = [asked EXCEPT ![m.to] =
                 IF @ = NoQuestion
                 THEN [of |-> m.of, failLast |-> m.failLast, spoiled |-> FALSE]
                 ELSE [@ EXCEPT !.spoiled = TRUE]]
  /\ UNCHANGED <<taskVars, playerVars, loginVars, answers>>

\* FinishHandlePasswordRequest and PasswordCallback: a stored password is sent
\* without asking the user unless the last one failed.  What is sent for a
\* question that was reset answers no request.
Answer(c) ==
  /\ asked[c] # NoQuestion
  /\ \E kind \in Kinds :
     \E automatic \in IF asked[c].spoiled \/ asked[c].failLast
                      THEN {FALSE} ELSE BOOLEAN :
       answers' = answers \cup
         {[from |-> c,
           of |-> IF asked[c].spoiled THEN Nobody ELSE asked[c].of,
           kind |-> kind, automatic |-> automatic]}
  /\ asked' = [asked EXCEPT ![c] = NoQuestion]
  /\ UNCHANGED <<taskVars, playerVars, loginVars, requests>>

----------------------------------------------------------------------------
ThreadGoes(t) ==
  \/ FetchInfo(t) \/ Query(t) \/ Authorize(t) \/ Check(t)
  \/ ThreadStep(t) /\ UNCHANGED <<playerVars, loginVars, netVars>>

MainGoesOn ==
  \/ FinishTask
  \/ MainStep /\ UNCHANGED <<playerVars, loginVars, netVars>>

ClientGoes(c) ==
  \/ \E m \in requests : m.to = c /\ ReceiveRequest(m)
  \/ Answer(c)

Answered(c) == \E m \in answers : m.from = c /\ ReceiveAnswer(m)

Next ==
  \/ MainGoesOn
  \/ \E t \in Threads : ThreadGoes(t)
  \/ \E c \in Clients :
       Join(c) \/ Leave(c) \/ WantLogin(c) \/ ClientGoes(c) \/ Answered(c)

Spec == Init /\ [][Next]_vars

\* Threads and the main loop go on, users answer or leave, and messages arrive:
\* ReliableMessages shows that.  The main loop looks for messages before each
\* st_DoToDo, and a thread gets the lock of the list in one of the pauses
\* between two of them: each is possible again and again, not all of the time.
Fairness ==
  /\ WF_vars(MainGoesOn)
  /\ \A p \in Jobs : SF_vars(\E s \in Slots : ThreadGoes(<<p, s>>))
  /\ \A c \in Clients : WF_vars(ClientGoes(c)) /\ SF_vars(Answered(c))

FairSpec == Spec /\ Fairness

----------------------------------------------------------------------------
\* The process a machine has belongs to a player who is there, and a machine has
\* one at most: sn_Reset clears what a client leaves behind before anything of
\* it can meet the next client of the machine.
LoginsOfThosePresent ==
  \A p \in listed :
    /\ online[login[p].user]
    /\ On(MachineOf[login[p].user]) = {p}

\* A process works with the answer to its own request, although answers go to
\* whatever process the machine has by then: an answer to another one is for
\* another salt and makes the right password wrong.
OwnAnswersOnly ==
  \A p \in listed : login[p].of \in {p, Nobody}

\* The threads of process p are done.
Idle(p) == \A s \in Slots : thread[<<p, s>>] = <<>>

\* A login ends, with a result or because its machine's clients come and go,
\* whatever the authority and the user do; and so do its threads.  Only one
\* whose result is stranded stays.
LoginsEnd ==
  \A p \in Jobs :
    p \in listed \/ ~Idle(p) ~> Idle(p) /\ (p \notin listed \/ Stranded)
=============================================================================
