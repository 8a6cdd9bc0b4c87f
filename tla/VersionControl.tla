--------------------------- MODULE VersionControl ---------------------------
(***************************************************************************)
(* The protocol version a server and its clients agree on                  *)
(* (sn_UpdateCurrentVersion in nNetwork.cpp) and the watched settings      *)
(* (nConfItemVersionWatcher in nConfig.cpp) that old clients cannot follow *)
(* and that shut them out, or go back to their defaults while such a       *)
(* client is connected.                                                    *)
(*                                                                         *)
(* An update of the version runs to its end in one step, but it is         *)
(* recursive: it kicks clients and changes settings, and both update the   *)
(* version again.  The operators below therefore pass the server's state   *)
(* along as a record, and take the updates nested in them as a function.   *)
(* Every followed client has a network of its own that delivers each       *)
(* message once, in any order.                                             *)
(***************************************************************************)
EXTENDS Integers, Sequences

CONSTANTS
  MaxClients,      \* MAXCLIENTS: slots 1 .. MaxClients
  Followed,        \* the slots whose client is modelled
  Top,             \* the highest version this server knows
  ClientTops,      \* the highest versions of the clients around
  ItemList,        \* the watched settings, in the order of the list of watchers
  Introduced,      \* the first version that supports a setting
  BehaviorOf,      \* GetBehavior: "nothing", "revert" or "block"
  Values,          \* values of the settings; 0 is the default
  MinVersions,     \* choices for MIN_PROTOCOL_VERSION
  MaxVersions,     \* choices for MAX_PROTOCOL_VERSION, 0 for no limit
  MaxUndelivered   \* bound on the settings under way before an event

Items == {ItemList[k] : k \in 1 .. Len(ItemList)}

ASSUME VersionAssumption ==
  /\ ItemList \in Seq(Items)
  /\ MaxClients \in Nat \ {0} /\ Followed \subseteq 1 .. MaxClients
  /\ Top \in Nat /\ ClientTops \subseteq Nat
  /\ Introduced \in [Items -> 0 .. Top]
  /\ BehaviorOf \in [Items -> {"nothing", "revert", "block"}]
  /\ 0 \in Values /\ MinVersions \subseteq 0 .. Top
  /\ MaxVersions \subseteq 0 .. Top /\ MaxUndelivered \in Nat

VARIABLES
  server,  \* the server's state, see Servers; kicked and failed record
           \* that an update has kicked somebody, or failed its assertion
  wanted,  \* the value the administrator gave each setting last
  cRange,  \* client: sn_currentVersion
  cValue   \* client: the settings

vars == <<server, wanted, cRange, cValue>>

Slots == 1 .. MaxClients
Default == 0
Ranges == [min : 0 .. Top, max : Nat]
Nobody == [min |-> 0, max |-> -1]
MyVersion == [min |-> 0, max |-> Top]
Larger(a, b) == IF a > b THEN a ELSE b
Smaller(a, b) == IF a < b THEN a ELSE b

(* Faulty Merge: the upper ends are not compared.                          *)
MergeLowerEnds(a, b) == [min |-> Larger(a.min, b.min), max |-> a.max]

(* nVersion::Merge.                                                        *)
Merge(a, b) == [min |-> Larger(a.min, b.min), max |-> Smaller(a.max, b.max)]
Compatible(a, b) == Merge(a, b).min <= Merge(a, b).max

Connected(s, i) == s.version[i] # Nobody

(* The server's states.                                                    *)
Servers ==
  [version    : [Slots -> Ranges \cup {Nobody}],
   current    : Ranges,
   minVersion : 0 .. Top,
   maxVersion : 0 .. Top,
   value      : [Items -> Values],
   saved      : [Items -> Values],
   nonDefault : [Items -> BOOLEAN],
   reverted   : [Items -> BOOLEAN],
   settings   : [Followed -> [Items -> Seq(Values)]],
   versions   : [Followed -> Seq(Ranges)],
   kicked     : BOOLEAN,
   failed     : BOOLEAN]

-----------------------------------------------------------------------------
(* Messages to the clients, as sequences of what was sent for each setting *)
(* and as versions; those to clients that are not followed are dropped.    *)
Receivers(s, slots) == {i \in Followed \cap slots : Connected(s, i)}

PostVersion(s, slots) ==
  [s EXCEPT !.versions = [i \in Followed |->
     IF i \in Receivers(s, slots) THEN Append(@[i], s.current) ELSE @[i]]]

PostSettings(s, slots, items) ==
  [s EXCEPT !.settings = [i \in Followed |-> [x \in Items |->
     IF i \in Receivers(s, slots) /\ x \in items
     THEN Append(@[i][x], s.value[x]) ELSE @[i][x]]]]

(* The range the server itself supports under its settings.                *)
Native(s) ==
  LET max == IF s.maxVersion > 0 THEN Smaller(Top, s.maxVersion) ELSE Top
  IN  [min |-> s.minVersion, max |-> Larger(max, s.minVersion)]

(* nConfItemVersionWatcher::AdaptVersion: what the settings in use that    *)
(* block old clients leave of a range.                                     *)
Blocking(s) == {x \in Items : s.nonDefault[x] /\ BehaviorOf[x] = "block"}

AdaptVersion(s, range) ==
  [range EXCEPT !.min =
     CHOOSE m \in {range.min} \cup {Introduced[x] : x \in Blocking(s)} :
       \A x \in Blocking(s) : m >= Introduced[x] /\ m >= range.min]

(* Its assertion that a common range is left.                              *)
CanAdaptVersion(s, range) ==
  \A x \in Blocking(s) : Introduced[x] <= range.max

(* In what follows, update[<<s, mayKick>>] is what becomes of the state s  *)
(* in a nested update, which may kick clients or not.                      *)

(* nConfItemVersionWatcher::OnChange                                       *)
WatcherChange(update, s, x, nonDefault, mayKick) ==
  IF nonDefault = s.nonDefault[x] THEN s
  ELSE update[<<[s EXCEPT !.nonDefault[x] = nonDefault], mayKick>>]

(* WasChanged and nConfItemBase::CheckChange, after a setting got its      *)
(* value: the watcher is told first, then the value goes to everybody.     *)
CheckChange(update, s, x, mayKick) ==
  PostSettings(WatcherChange(update, s, x, s.value[x] # Default, mayKick),
               Slots, {x})

(* nConfItem<T>::Set                                                       *)
SetValue(update, s, x, v, mayKick) ==
  IF v = s.value[x] THEN s
  ELSE CheckChange(update, [s EXCEPT !.value[x] = v], x, mayKick)

(* SaveValue and RevertToDefaults, which tells the watcher beforehand.     *)
RevertItem(update, s, x, mayKick) ==
  LET saved == [s EXCEPT !.reverted[x] = TRUE, !.saved[x] = s.value[x]]
  IN  SetValue(update, WatcherChange(update, saved, x, FALSE, mayKick),
               x, Default, mayKick)

(* RevertToSavedValue                                                      *)
RestoreItem(update, s, x, mayKick) ==
  SetValue(update, [s EXCEPT !.reverted[x] = FALSE], x, s.saved[x], mayKick)

(* Whether the body of the loop in OnVersionChange reverts or restores a   *)
(* setting, when max is the highest version supported.                     *)
ToRevert(s, x, max) ==
  /\ BehaviorOf[x] # "nothing" /\ Introduced[x] > max
  /\ ~ s.reverted[x] /\ s.nonDefault[x]

ToRestore(s, x, max) ==
  BehaviorOf[x] # "nothing" /\ Introduced[x] <= max /\ s.reverted[x]

(* Faulty OnVersionChange: the saved value is not brought back.            *)
AdaptItemOneWay(update, s, x, max, mayKick) ==
  IF ToRevert(s, x, max) THEN RevertItem(update, s, x, mayKick) ELSE s

AdaptItem(update, s, x, max, mayKick) ==
  IF ToRevert(s, x, max) THEN RevertItem(update, s, x, mayKick)
  ELSE IF ToRestore(s, x, max) THEN RestoreItem(update, s, x, mayKick)
  ELSE s

(* nConfItemVersionWatcher::OnVersionChange, after k of the settings.      *)
Adapted(update, s, max, mayKick) ==
  LET adapted[k \in 0 .. Len(ItemList)] ==
        IF k = 0 THEN s
        ELSE AdaptItem(update, adapted[k - 1], ItemList[k], max, mayKick)
  IN  adapted

OnVersionChange(update, s, max, mayKick) ==
  Adapted(update, s, max, mayKick)[Len(ItemList)]

(* sn_DisconnectUser: the connection is gone, the version is updated.      *)
Disconnected(s, i) ==
  [s EXCEPT !.version[i] = Nobody,
            !.settings = [j \in Followed |->
                            IF j = i THEN [x \in Items |-> <<>>] ELSE @[j]],
            !.versions = [j \in Followed |-> IF j = i THEN <<>> ELSE @[j]]]

(* Faulty loop: incompatible clients stay.                                 *)
KickNever(update, s, i, mayKick) == s

(* The update at the end of sn_DisconnectUser kicks nobody else.           *)
Kick(update, s, i, mayKick) ==
  IF mayKick THEN update[<<Disconnected([s EXCEPT !.kicked = TRUE], i), FALSE>>]
  ELSE s

(* One turn of the loop of sn_UpdateCurrentVersion.  After an incompatible *)
(* client it starts over from the native range, but not from the last      *)
(* slot.                                                                   *)
MergeClient(update, m, native, i, mayKick) ==
  IF ~ Connected(m.server, i) THEN m
  ELSE IF Compatible(m.range, m.server.version[i])
  THEN [server |-> m.server, range |-> Merge(m.range, m.server.version[i])]
  ELSE [server |-> Kick(update, m.server, i, mayKick), range |-> native]

(* The loop after k of the slots, which it visits from the last one on.    *)
Merged(update, s, native, mayKick) ==
  LET merged[k \in 0 .. MaxClients] ==
        IF k = 0 THEN [server |-> s, range |-> native]
        ELSE MergeClient(update, merged[k - 1], native, MaxClients + 1 - k, mayKick)
  IN  merged

MergeClients(update, s, native, mayKick) ==
  Merged(update, s, native, mayKick)[MaxClients]

(* A new range is stored and sent to everybody.                            *)
Announce(s, range) ==
  IF range = s.current THEN s
  ELSE PostVersion([s EXCEPT !.current = range], Slots)

(* sn_UpdateCurrentVersion on the server.                                  *)
UpdateWith(update, s, mayKick) ==
  IF ~ CanAdaptVersion(s, Native(s)) THEN [s EXCEPT !.failed = TRUE]
  ELSE LET native == AdaptVersion(s, Native(s))
           merged == MergeClients(update, s, native, mayKick)
       IN  Announce(OnVersionChange(update, merged.server, merged.range.max,
                                    mayKick),
                    merged.range)

(* Updates nest at most this deep: each level after one that kicks somebody*)
(* has a client less, and the others have one setting less to adapt.       *)
MaxNesting == MaxClients + Len(ItemList) + 1

(* Updates that may nest n - 1 levels deep.                                *)
Updates[n \in 0 .. MaxNesting] ==
  [call \in Servers \X BOOLEAN |->
     IF n = 0 THEN [call[1] EXCEPT !.failed = TRUE]
     ELSE UpdateWith(Updates[n - 1], call[1], call[2])]

Update == Updates[MaxNesting]

-----------------------------------------------------------------------------
Init ==
  /\ server = [version    |-> [i \in Slots |-> Nobody],
               current    |-> MyVersion,
               minVersion |-> 0,
               maxVersion |-> 0,
               value      |-> [x \in Items |-> Default],
               saved      |-> [x \in Items |-> Default],
               nonDefault |-> [x \in Items |-> FALSE],
               reverted   |-> [x \in Items |-> FALSE],
               settings   |-> [i \in Followed |-> [x \in Items |-> <<>>]],
               versions   |-> [i \in Followed |-> <<>>],
               kicked     |-> FALSE,
               failed     |-> FALSE]
  /\ wanted = [x \in Items |-> Default]
  /\ cRange = [i \in Followed |-> MyVersion]
  /\ cValue = [i \in Followed |-> [x \in Items |-> Default]]

(* Events come when the settings of earlier ones have mostly arrived, and  *)
(* only while no assertion has failed.                                     *)
Running ==
  /\ ~ server.failed
  /\ \A i \in Followed :
       /\ Len(server.versions[i]) <= MaxUndelivered
       /\ \A x \in Items : Len(server.settings[i][x]) <= MaxUndelivered

FreeSlots == {i \in Slots : ~ Connected(server, i)}

(* sn_LoginHandler: a client whose version fits the current one takes the  *)
(* first free slot, gets the settings (s_SendConfig), and then the version.*)
Login(top, i) ==
  LET range == [min |-> 0, max |-> top]
      greeted == PostSettings([server EXCEPT !.version[i] = range], {i}, Items)
  IN  /\ Running
      /\ Compatible(range, server.current)
      /\ \A j \in FreeSlots : i <= j
      /\ server' = PostVersion(Update[<<greeted, TRUE>>], {i})
      /\ cRange' = [j \in Followed |-> IF j = i THEN range ELSE cRange[j]]
      /\ cValue' = [j \in Followed |->
           IF j = i THEN [x \in Items |-> Default] ELSE cValue[j]]
      /\ UNCHANGED wanted

(* A client leaves (sn_DisconnectUser).                                    *)
Logout(i) ==
  /\ Running
  /\ Connected(server, i)
  /\ server' = Update[<<Disconnected(server, i), TRUE>>]
  /\ UNCHANGED <<wanted, cRange, cValue>>

(* DoWritable: reverting settings are protected while not supported.       *)
Writable(x) ==
  BehaviorOf[x] = "revert" => Introduced[x] <= server.current.max

(* The administrator changes a watched setting.                            *)
ChangeItem(x, v) ==
  /\ Running
  /\ v # server.value[x]
  /\ Writable(x)
  /\ server' = CheckChange(Update, [server EXCEPT !.value[x] = v], x, TRUE)
  /\ wanted' = [wanted EXCEPT ![x] = v]
  /\ UNCHANGED <<cRange, cValue>>

(* The administrator changes a limit: plain settings, nobody is told.      *)
ChangeLimits(min, max) ==
  /\ Running
  /\ server' = [server EXCEPT !.minVersion = min, !.maxVersion = max]
  /\ server' # server
  /\ UNCHANGED <<wanted, cRange, cValue>>

-----------------------------------------------------------------------------
(* Faulty client: settings are taken as they come.                         *)
RemainingAll(sent, k) ==
  SubSeq(sent, 1, k - 1) \o SubSeq(sent, k + 1, Len(sent))

(* s_GetConfigProtoBuf takes a setting only if its message is newer than   *)
(* the last one taken for it: older ones might as well vanish.             *)
Remaining(sent, k) == SubSeq(sent, k + 1, Len(sent))

ReceiveSetting(i, x, k) ==
  /\ server' = [server EXCEPT !.settings[i][x] = Remaining(@, k)]
  /\ cValue' = [cValue EXCEPT ![i][x] = server.settings[i][x][k]]
  /\ UNCHANGED <<wanted, cRange>>

(* sn_VersionControlHandler on a client: nothing protects versions.        *)
ReceiveVersion(i, k) ==
  /\ server' = [server EXCEPT !.versions[i] =
                  SubSeq(@, 1, k - 1) \o SubSeq(@, k + 1, Len(@))]
  /\ cRange' = [cRange EXCEPT ![i] = server.versions[i][k]]
  /\ UNCHANGED <<wanted, cValue>>

Next ==
  \/ \E top \in ClientTops, i \in FreeSlots : Login(top, i)
  \/ \E i \in Slots : Logout(i)
  \/ \E x \in Items, v \in Values : ChangeItem(x, v)
  \/ \E min \in MinVersions, max \in MaxVersions : ChangeLimits(min, max)
  \/ \E i \in Followed, x \in Items :
       \E k \in 1 .. Len(server.settings[i][x]) : ReceiveSetting(i, x, k)
  \/ \E i \in Followed :
       \E k \in 1 .. Len(server.versions[i]) : ReceiveVersion(i, k)

Spec == Init /\ [][Next]_vars

-----------------------------------------------------------------------------
(* The variables keep their types; a watcher always knows whether its      *)
(* setting has the default value, and the agreed range is never empty.     *)
TypeOK ==
  /\ server \in Servers
  /\ wanted \in [Items -> Values]
  /\ cRange \in [Followed -> Ranges]
  /\ cValue \in [Followed -> [Items -> Values]]
  /\ \A x \in Items : server.nonDefault[x] = (server.value[x] # Default)
  /\ server.current.min <= server.current.max

Supports(i, x) == Connected(server, i) => server.version[i].max >= Introduced[x]
EverybodySupports(x) == \A i \in Slots : Supports(i, x)

(* The comment on sn_CurrentVersion in nNetwork.h: the agreed version is   *)
(* supported by all connected players.                                     *)
CurrentSupportedByAll ==
  \A i \in Slots : Connected(server, i) =>
    /\ server.current.min >= server.version[i].min
    /\ server.current.max <= server.version[i].max

(* Until an update kicks somebody, it is.                                  *)
CurrentSupportedUnlessKicked == server.kicked \/ CurrentSupportedByAll

(* A setting that blocks old clients and one of those clients are never    *)
(* together on the server, whatever kicks and the other settings do        *)
(* meanwhile.                                                              *)
BlockedClientsStayOut ==
  \A x \in Blocking(server), i \in Slots : Supports(i, x)

(* While a client that cannot follow a reverting setting is connected, the *)
(* setting has its default value; unless an update has kicked somebody.    *)
RevertedForOldClients ==
  \A x \in Items :
    \/ server.kicked
    \/ BehaviorOf[x] = "revert" /\ server.value[x] # Default => EverybodySupports(x)

(* Reverting is temporary: once nobody is left whom it was for, a setting  *)
(* has the value the administrator gave it; unless an update has kicked    *)
(* somebody.                                                               *)
SettingsComeBack ==
  \A x \in Items :
    \/ server.kicked
    \/ server.value[x] = wanted[x]
    \/ server.reverted[x] /\ Introduced[x] > server.current.max

(* A setting that reverts for old clients is away from its default only    *)
(* without them, and back at the wanted value as soon as they are gone.    *)
RevertedOnlyForOldClients == RevertedForOldClients /\ SettingsComeBack

(* Settings that arrive in any order leave each client with the server's   *)
(* values when all have arrived.                                           *)
ClientsAgreeOnSettings ==
  \A i \in Followed :
    Connected(server, i) /\ (\A x \in Items : server.settings[i][x] = <<>>) =>
      cValue[i] = server.value
=============================================================================
