------------------------------- MODULE Votes --------------------------------
(***************************************************************************)
(* Votes on throwing a player out (eVoter.cpp).  A vote is announced once  *)
(* to every machine that may vote, machines may cast a ballot and change   *)
(* their minds, and the vote is settled when the server looks at it: after *)
(* each ballot, and whenever somebody proposes another one.  The number of *)
(* voters it takes is fixed when a vote is announced, and falls with time; *)
(* voters come and go, and an accepted vote throws some of them out, while *)
(* the server walks through the list of all votes.                         *)
(*                                                                         *)
(* Messages arrive once, in any order (ReliableMessages).  Only the lists  *)
(* of some clients are modelled; ballots of all others may come any time.  *)
(* Spectators do not vote (ALLOW_VOTING_SPECTATOR), time passes in steps   *)
(* of VOTING_DECAY, and votes that run commands are left out.              *)
(***************************************************************************)
EXTENDS Integers, Sequences, FiniteSets, SequencesExt

CONSTANTS
  MaxClients,        \* the number of slots
  Machines,
  Watched,           \* the slots of the clients whose lists are modelled
  MayWatch,          \* the slots whose clients may be spectators
  MinVoters,         \* se_minVoters
  Bias,              \* se_votingBias and the extra bias of a kick
  MaxVotes,          \* se_maxVotes
  MaxVotesPerVoter,  \* se_maxVotesPerVoter
  MaxAge,            \* the age at which votes time out
  MaxItems,          \* bound on the votes proposed
  None

Slots == 1 .. MaxClients
Ids   == 1 .. MaxItems

ASSUME VotesAssumption ==
  /\ {MaxClients, MinVoters, Bias, MaxVotes, MaxVotesPerVoter, MaxAge,
      MaxItems} \subseteq Nat
  /\ Watched \subseteq Slots /\ MayWatch \subseteq Slots
  /\ None \notin Machines /\ None \notin [machine : Machines, playing : BOOLEAN]

VARIABLES
  seats,      \* server: the machine in each slot, and whether it plays
  items,      \* server: eVoteItem::items_
  lastId,     \* server: se_votingItemID
  mail,       \* what is on its way to each watched client
  shown,      \* client: eVoteItem::items_
  passed,     \* history: the votes accepted in the last step
  overtaken   \* history: votes whose end overtook earlier news of them

history == <<passed, overtaken>>
client  == <<mail, shown>>
vars    == <<seats, items, lastId, client, history>>

Seats == [machine : Machines, playing : BOOLEAN] \cup {None}
(* The suspect is the slot of the player's client, 0 if he has left.       *)
Items == [id : Ids, suggestor : Machines \cup {None},
          suspect : Slots \cup {0}, machine : Machines \cup {None},
          pro : SUBSET Machines, con : SUBSET Machines,
          total : 1 .. MaxClients, age : 0 .. MaxAge,
          asked : SUBSET Machines, accused : Machines]
(* The last two are history: who was asked, and who the suspect was.       *)

News == [new : {TRUE}, id : Ids, expired : {FALSE}]
Changes == [new : {FALSE}, id : Ids, expired : BOOLEAN]
Announce(id) == [new |-> TRUE, id |-> id, expired |-> FALSE]
Change(id, expired) == [new |-> FALSE, id |-> id, expired |-> expired]

Init ==
  /\ seats = [s \in Slots |-> None]
  /\ items = <<>> /\ lastId = 0
  /\ mail = [s \in Watched |-> {}]
  /\ shown = [s \in Watched |-> {}]
  /\ passed = {}
  /\ overtaken = [s \in Watched |-> {}]

-----------------------------------------------------------------------------
(* Voters.  Most operators are about a server w: its seats and items, what *)
(* it has told all clients, and the votes it has accepted.                 *)

(* eVoter::GetVoter: all players of a machine are one voter.               *)
Voter(w, s) ==
  IF w.seats[s] # None /\ w.seats[s].playing THEN w.seats[s].machine ELSE None

VotersIn(w, S) == {Voter(w, s) : s \in S} \ {None}

Connected(w) == {s \in Slots : w.seats[s] # None}

(* Faulty removal: from the ballots for the vote only.                     *)
WithoutSupport(item, M) ==
  [item EXCEPT !.pro = @ \ M,
               !.suggestor = IF @ \in M THEN None ELSE @]

(* RemoveVoterCompletely, of all machines in M.                            *)
Without(item, M) ==
  [item EXCEPT !.pro = @ \ M, !.con = @ \ M,
               !.suggestor = IF @ \in M THEN None ELSE @]

(* Faulty reference to a player: by slot, for ever.                        *)
StillAccused(item, S) == item

(* player_ is an nObserverPtr.                                             *)
Unobserved(item, S) == [item EXCEPT !.suspect = IF @ \in S THEN 0 ELSE @]

MachinesOf(w, S) == {w.seats[s].machine : s \in S}

(* ePlayerNetID::RemoveFromGame of players in the slots S: the ballots of  *)
(* their whole machines are gone.                                          *)
Withdrawn(w, S) ==
  [w EXCEPT !.items = [k \in DOMAIN @ |-> Without(@[k], MachinesOf(w, S))]]

(* All players of the clients in S leave with them.                        *)
Removed(w, S) ==
  [w EXCEPT
    !.items = [k \in DOMAIN @ |->
                 Unobserved(Without(@[k], MachinesOf(w, S)), S)],
    !.seats = [s \in Slots |-> IF s \in S THEN None ELSE @[s]]]

-----------------------------------------------------------------------------
(* Evaluating votes.                                                       *)

Pro(item) == Cardinality(item.pro)
ConAdjusted(item) == Cardinality(item.con) + Bias
TotalAdjusted(item) == item.total + Bias - item.age

TooFew(item) == item.total < MinVoters \/ item.total < 2
Rejected(item) ==
  ConAdjusted(item) >= Pro(item) /\ ConAdjusted(item) * 2 >= TotalAdjusted(item)
(* Faulty verdict: half of the voters are enough.                          *)
AcceptedByHalf(item) ==
  Pro(item) >= ConAdjusted(item) /\ Pro(item) * 2 >= TotalAdjusted(item)
(* The test for rejection comes first.                                     *)
Accepted(item) ==
  Pro(item) >= ConAdjusted(item) /\ Pro(item) * 2 > TotalAdjusted(item)
TimedOut(item) == item.age = MaxAge

Passes(item) == ~ TooFew(item) /\ ~ Rejected(item) /\ Accepted(item)
Ends(item) == TooFew(item) \/ Rejected(item) \/ Accepted(item) \/ TimedOut(item)

(* DoExecuteHarm of a kick: the player, or else everyone on his machine.   *)
Culprits(w, item) ==
  IF item.suspect # 0 THEN {item.suspect} \cap Connected(w)
  ELSE {s \in Connected(w) : w.seats[s].machine = item.machine}

Executed(w, item) ==
  LET culprits == Culprits(w, item)
      record == [item |-> item, machines |-> MachinesOf(w, culprits)]
  IN  [Removed(w, culprits) EXCEPT !.passed = @ \cup {record}]

(* Faulty destructor: tells nobody.                                        *)
DeletedSilently(w, k) ==
  [w EXCEPT !.items = Front([w.items EXCEPT ![k] = Last(w.items)])]

(* delete: tells the clients; in a tList the last item moves into the gap. *)
Deleted(w, k) ==
  [w EXCEPT !.items = Front([w.items EXCEPT ![k] = Last(w.items)]),
            !.told = @ \cup {Change(w.items[k].id, TRUE)}]

(* Evaluate, of the kth item.                                              *)
Evaluated(w, k) ==
  LET item == w.items[k]
      told == [w EXCEPT !.told = @ \cup {Change(item.id, FALSE)}]
      done == IF Passes(item) THEN Executed(told, item) ELSE told
  IN  IF Ends(item) THEN Deleted(done, k) ELSE told

(* Every item is looked at, from the end of the list on: after k of them,  *)
(* the last k items have been seen.                                        *)
AfterLooks(w) ==
  LET n == Len(w.items)
      after[k \in 0 .. n] ==
        IF k = 0 THEN w ELSE Evaluated(after[k - 1], n + 1 - k)
  IN  after

AllEvaluated(w) == AfterLooks(w)[Len(w.items)]

-----------------------------------------------------------------------------
Server == [seats |-> seats, items |-> items, told |-> {}, passed |-> {}]

NoNews == [s \in Watched |-> {}]

(* What the server did is put in the mail, with news for some clients.    *)
(* A connection that ends takes all that is on its way along.              *)
Become(w, news) ==
  LET IfConnected(f) ==
        [s \in Watched |-> IF w.seats[s] = None THEN {} ELSE f[s]]
  IN  /\ seats' = w.seats /\ items' = w.items /\ passed' = w.passed
      /\ mail' = IfConnected(
           [s \in Watched |-> mail[s] \cup w.told \cup news[s]])
      /\ shown' = IfConnected(shown)
      /\ overtaken' = IfConnected(overtaken)

-----------------------------------------------------------------------------
(* Clients come and go.                                                    *)

(* se_Cleanup: who logs in is sent all pending items.                      *)
Login(s, m) ==
  /\ seats[s] = None
  /\ seats' = [seats EXCEPT
       ![s] = [machine |-> m, playing |-> s \notin MayWatch]]
  /\ mail' = [t \in Watched |->
       IF t = s THEN {Announce(items[k].id) : k \in DOMAIN items}
       ELSE mail[t]]
  /\ passed' = {}
  /\ UNCHANGED <<items, lastId, shown, overtaken>>

(* A player joins a team.                                                  *)
Play(s) ==
  /\ seats[s] # None /\ ~ seats[s].playing
  /\ seats' = [seats EXCEPT ![s].playing = TRUE]
  /\ passed' = {}
  /\ UNCHANGED <<items, lastId, client, overtaken>>

(* All its players leave their teams and watch; their ballots stand.       *)
Watch(s) ==
  /\ s \in MayWatch /\ seats[s] # None /\ seats[s].playing
  /\ seats' = [seats EXCEPT ![s].playing = FALSE]
  /\ passed' = {}
  /\ UNCHANGED <<items, lastId, client, overtaken>>

(* One of several players of a client leaves.                              *)
PlayerLeaves(s) ==
  /\ seats[s] # None
  /\ LET w == Withdrawn(Server, {s})
     IN  \E accused \in BOOLEAN :
           items' = [k \in DOMAIN w.items |->
             IF accused THEN Unobserved(w.items[k], {s}) ELSE w.items[k]]
  /\ passed' = {}
  /\ UNCHANGED <<seats, lastId, client, overtaken>>

Leave(s) ==
  /\ seats[s] # None
  /\ Become(Removed(Server, {s}), NoNews)
  /\ UNCHANGED lastId

-----------------------------------------------------------------------------
(* Proposing and voting.                                                   *)

ProposedBy(w, voter) ==
  Cardinality({k \in DOMAIN w.items : w.items[k].suggestor = voter})

(* AcceptNewVote, after the look at all items.                             *)
MayPropose(w, voter) ==
  /\ voter # None
  /\ Cardinality(VotersIn(w, Slots)) >= MinVoters
  /\ Cardinality(VotersIn(w, Slots)) >= 2
  /\ ProposedBy(w, voter) < MaxVotesPerVoter
  /\ Len(w.items) < MaxVotes

(* ReBroadcast: the suggestor and one for each voter the vote is sent to;  *)
(* another client of the suggestor's machine is sent it, and counts.       *)
TotalOf(w, s) == 1 + Cardinality(VotersIn(w, Slots \ {s}))

(* The clients it is sent to: one of each voter, from the last slot down.  *)
Informed(w, s) ==
  {t \in Slots \ {s} : /\ Voter(w, t) # None
                       /\ \A u \in Slots \ {s} :
                            u > t => Voter(w, u) # Voter(w, t)}

NewItem(w, s, t) ==
  [id |-> lastId + 1, suggestor |-> Voter(w, s), suspect |-> t,
   machine |-> Voter(w, t), pro |-> {Voter(w, s)}, con |-> {},
   total |-> TotalOf(w, s), age |-> 0,
   asked |-> VotersIn(w, Slots), accused |-> w.seats[t].machine]

(* HandleChat: the client in slot s wants to throw out a player of the one *)
(* in slot t.  First all items are looked at.  The vote may be refused for *)
(* spam, or because somebody else has proposed the like just now; and it   *)
(* is if the look has just thrown out who proposes it.                     *)
Propose(s, t) ==
  /\ Voter(Server, s) # None
  /\ LET w == AllEvaluated(Server)
     IN  \/ Become(w, NoNews) /\ UNCHANGED lastId
         \/ /\ lastId < MaxItems
            /\ MayPropose(w, Voter(Server, s))
            /\ Voter(w, s) # None /\ w.seats[t] # None
            /\ lastId' = lastId + 1
            /\ Become(
                 Evaluated([w EXCEPT !.items = Append(@, NewItem(w, s, t))],
                           Len(w.items) + 1),
                 [u \in Watched |-> IF u \in Informed(w, s)
                                    THEN {Announce(lastId + 1)} ELSE {}])

(* RemoveVoter, and the ballot.                                            *)
WithBallot(item, m, accept) ==
  [item EXCEPT !.pro = IF accept THEN @ \cup {m} ELSE @ \ {m},
               !.con = IF accept THEN @ \ {m} ELSE @ \cup {m}]

(* GetControlMessage: a ballot from slot s.                                *)
Count(s, id, accept) ==
  LET K == {k \in DOMAIN items : items[k].id = id}
      m == Voter(Server, s)
  IN  IF K = {} THEN Server
      ELSE LET k == CHOOSE k \in K : TRUE
               w == IF m = None THEN Server
                    ELSE [Server EXCEPT !.items[k] = WithBallot(@, m, accept)]
           IN  Evaluated(w, k)

ReceiveBallot(s, id, accept) ==
  /\ seats[s] # None /\ id <= lastId
  /\ Become(Count(s, id, accept), NoNews)
  /\ UNCHANGED lastId

(* Time passes for an item.                                                *)
Age(k) ==
  /\ k \in DOMAIN items /\ items[k].age < MaxAge
  /\ items' = [items EXCEPT ![k].age = @ + 1]
  /\ passed' = {}
  /\ UNCHANGED <<seats, lastId, client, overtaken>>

-----------------------------------------------------------------------------
(* Watched clients.                                                        *)

(* What a look at the client's list leaves of it: Evaluate drops what has  *)
(* expired, and in time what is overdue.                                   *)
Remaining(s) ==
  LET Overdue(id) ==
        \A k \in DOMAIN items : items[k].id = id => items[k].age = MaxAge
      fresh == {i \in shown[s] : ~ i.expired}
      old == {i \in fresh : Overdue(i.id)}
  IN  {fresh \ gone : gone \in SUBSET old}

(* se_HandleNewServerVote.                                                 *)
ReceiveNew(s, id) ==
  /\ Announce(id) \in mail[s]
  /\ mail' = [mail EXCEPT ![s] = @ \ {Announce(id)}]
  /\ \E remaining \in Remaining(s) :
       shown' = [shown EXCEPT
         ![s] = remaining \cup {[id |-> id, expired |-> FALSE]}]
  /\ passed' = {}
  /\ UNCHANGED <<seats, items, lastId, overtaken>>

(* se_VoteChangesHandler: the item is marked, if the client has it.  The   *)
(* end of a vote has overtaken other news of it that are on their way.     *)
ReceiveChange(s, id, expired) ==
  /\ Change(id, expired) \in mail[s]
  /\ mail' = [mail EXCEPT ![s] = @ \ {Change(id, expired)}]
  /\ shown' = [shown EXCEPT
       ![s] = {IF i.id = id THEN [i EXCEPT !.expired = expired] ELSE i : i \in @}]
  /\ overtaken' =
       IF expired /\ {Announce(id), Change(id, FALSE)} \cap mail[s] # {}
       THEN [overtaken EXCEPT ![s] = @ \cup {id}] ELSE overtaken
  /\ passed' = {}
  /\ UNCHANGED <<seats, items, lastId>>

(* Vote: the client sends its ballot and forgets the item.                 *)
Vote(s, i) ==
  /\ i \in shown[s]
  /\ shown' = [shown EXCEPT ![s] = @ \ {i}]
  /\ passed' = {}
  /\ UNCHANGED <<seats, items, lastId, mail, overtaken>>

(* VotingMenu: the player looks at the list.                               *)
Look(s) ==
  /\ \E remaining \in Remaining(s) :
       shown' = [shown EXCEPT ![s] = remaining]
  /\ passed' = {}
  /\ UNCHANGED <<seats, items, lastId, mail, overtaken>>

-----------------------------------------------------------------------------
ClientStep ==
  \E s \in Watched :
    \/ Look(s)
    \/ \E i \in shown[s] : Vote(s, i)
    \/ \E id \in Ids :
         \/ ReceiveNew(s, id)
         \/ \E expired \in BOOLEAN : ReceiveChange(s, id, expired)

ComeOrGo ==
  \E s \in Slots :
    \/ \E m \in Machines : Login(s, m)
    \/ Play(s) \/ Watch(s) \/ PlayerLeaves(s) \/ Leave(s)

Proposal == \E s, t \in Slots : Propose(s, t)

Aging == \E k \in 1 .. MaxVotes : Age(k)

Next ==
  \/ ComeOrGo \/ Proposal \/ Aging \/ ClientStep
  \/ \E s \in Slots, id \in Ids, accept \in BOOLEAN :
       ReceiveBallot(s, id, accept)

Spec == Init /\ [][Next]_vars

-----------------------------------------------------------------------------
(* The types of all variables; the list is never longer than it may be.    *)
TypeOK ==
  /\ seats \in [Slots -> Seats]
  /\ items \in Seq(Items) /\ Len(items) <= MaxVotes
  /\ lastId \in 0 .. MaxItems
  /\ mail \in [Watched -> SUBSET (News \cup Changes)]
  /\ shown \in [Watched -> SUBSET [id : Ids, expired : BOOLEAN]]
  /\ passed \subseteq [item : Items, machines : SUBSET Machines]
  /\ overtaken \in [Watched -> SUBSET Ids]

Present == {seats[s].machine : s \in Connected(Server)}

(* Every machine whose ballot counts, or whose vote it is, is still there; *)
(* nobody has two ballots.                                                 *)
BallotsOfThosePresent ==
  \A k \in DOMAIN items :
    /\ items[k].pro \cup items[k].con \subseteq Present
    /\ items[k].pro \cap items[k].con = {}
    /\ items[k].suggestor \in Present \cup {None}

(* A vote is accepted only if more voters are for it than against it, and, *)
(* unless it has grown old, if they are more than half of those who could  *)
(* vote when it was announced, whoever has come or gone since.             *)
MajorityDecides ==
  \A p \in passed :
    LET i == p.item
    IN  /\ Cardinality(i.pro) > Cardinality(i.con) + Bias
        /\ i.age = 0 => 2 * Cardinality(i.pro) > Cardinality(i.asked) + Bias

(* A vote throws out clients of the machine of the player it was about,    *)
(* and nobody else, even if he has left and others have taken his slot.    *)
KickHitsTheAccused ==
  \A p \in passed : p.machines \subseteq {p.item.accused}

(* What a client shows as open is open, or the news of its end are on      *)
(* their way, unless they came before older news of it.                    *)
ShownIsOpen ==
  \A s \in Watched : \A i \in shown[s] :
    \/ i.expired
    \/ \E k \in DOMAIN items : items[k].id = i.id
    \/ Change(i.id, TRUE) \in mail[s]
    \/ i.id \in overtaken[s]
=============================================================================
