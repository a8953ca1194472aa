# Formal model of sa2-battle-network

*SA2: Battle Network* is a mod that puts the two-player battle mode of Sonic
Adventure 2 on a network. This directory holds TLA+ models of its protocol, the
TLC configurations that check them on small instances, and TLAPS proofs of what
matters most. Paths are relative to `src/sa2-battle-network/` unless they say
otherwise.

## 1. The system

One player runs with `--host` (the server, node 0), the others with `--connect`.
Every game is a single thread: the mod loader calls `OnFrame` and `OnInput` once per
frame, and hooks in the game's code call into the mod. The server has a TCP
connection with every client, relays what a client sends to the others behind an
`N_Node`, and receives UDP datagrams from all of them.

| Component | State | Operations | Properties that make it correct |
|---|---|---|---|
| Ready barrier (`PacketBroker.cpp`) and the hooks that use it (`OnStageChange.cpp`, `CharacterSync.cpp`, `Random.cpp`, `OnGameState.cpp`, `PoseEffect2PStartMan.cpp`) | `wait_requests`, the data of stage, next stage, characters and seed | `wait_for_players`, `send_ready`, `send_ready_and_wait`, `N_Ready` in `read`, the relay of `receive_loop` | nobody leaves a synchronization point before everybody is there; everybody has the server's data of that point; nobody waits forever |
| Session (`PacketHandler.cpp`, `Program.cpp`, `OnFrame.cpp`, `Events.cpp`) | `connections_`, `bound`, `host`, `rejected`, `player_num`, settings, trampolines | `listen`, `connect`, `disconnect`, `start_server`, `start_client`, `Program::disconnect` | numbers agree and differ; settings and hooks last as long as the session; only accepted clients play; a host can be joined |
| Datagram filter (`PacketEx.cpp`, `read`) | `PacketEx::sequence`, `sequences` | `initialize`, the check in `read` | late datagrams are refused, nobody is locked out |
| Keep-alives (`receive_loop`, `send_system`) | `keep_alive`, `sent_keep_alive`, `timed_out` | `S_KeepAlive`, the timeouts | a player that runs is not dropped, one that is gone is |
| Outgoing queue (`PacketEx.cpp`, `request`, `append`, `finalize`) | two packets under construction | `add_type`, `finalize`, `request`, `append` | one message per type, a value leaves by one protocol |
| Replication (`send_system`, `send_menu`, `receive_system`, `receive_menu`) | the game's fields and their shadows | compare, send, apply | the games converge |
| Player mirror (`send_player`, `receive_player`, `PlayerObject.cpp`) | `net_player`, `write_player` | copy, write | the remote player follows |
| Owned events (`AddRings.cpp`, `AddHP.cpp`, `Damage.cpp`, `ItemBoxItems.cpp`) | rings, HP, powerups | the owner applies and sends, the others apply what they get | equal totals |
| Input (`OnInput.cpp`) | `net_input`, timers, swapped controllers | `OnInput`, `OnControl`, `swap_input` | the remote stick ends where the owner's is |
| Emerald seed (`EmeraldSync.cpp`, `Random.cpp`) | `current_seed`, `last_seed` | save, synchronize, restore | the emeralds agree, the other random numbers go on undisturbed |
| Result screen (`OnResult.cpp`) | `local_data`, `remote_data` | win, result, menu | both games show the same |

How they interact: the hooks block in the barrier, whose loop calls `receive_loop`;
`receive_loop` reads packets of every component, relays them and drops silent
connections, which changes what the barrier waits for; `Program::disconnect` resets
all of `PacketBroker`; `OnFrame` drives the session and then sends the state.

What is hard: blocking waits in several single-threaded games at once; a count that
is compared with a number of connections that shrinks; packets of a later point
overtaking a slow game; connections that end at one side only (`N_Disconnect` is
handled but never sent, so silence is the only sign); numbers that are given out
again; datagrams that are lost, repeated or late. `PROJECT.json` lists every hazard
at its line with the properties aimed at it.

## 2. Modules

| Module | Models |
|---|---|
| `SyncPoint` | abstract: what the barrier promises to the hooks |
| `ReadyBarrier` | the barrier and its hooks, with relays and timeouts |
| `ReadyBarrierProofs` | theorems about `ReadyBarrier` without and with timeouts, and about `KeepAlive` from them, with `FiniteSetTheorems` |
| `KeepAlive` | the barrier in time: keep-alives, silence, crashes |
| `Session` | connections, handshake, hooks, settings, controllers, end of a session |
| `SessionProofs` | theorems about `Session` |
| `UdpSequence` | the datagram filter |
| `UdpSequenceProofs` | theorems about `UdpSequence` on any network and on one that keeps the order, with `SequenceTheorems` |
| `Replication` | the variables the players keep equal, their shadows and the relay |
| `ReplicationProofs` | theorems about `Replication`: types, the barrier between two rounds, who decides about a variable |
| `ReplicationAgreementProofs` | theorems about `Replication`: what the players agree on when nothing is under way |
| `PacketQueue` | the two packets of a frame: `add_type`, `append`, `request`, `finalize` |
| `OwnedEvents` | rings, HP, damage, death and item boxes: hooks and handlers |
| `PlayerMirror` | `send_player`, `receive_player`, `PlayerObject` |
| `InputSync` | `OnInput`, `OnControl` and their handlers |
| `ResultScreen` | `OnWin`, the wrapper of the result screen, `S_WinData` |
| `Round` | composes the five modules above it with the streams between two machines |
| `RoundReadingProofs` | lemmas about `Round`: what each hook, each frame and each message does to a machine |
| `RoundProofs` | theorems about `Round` |
| `Induction` | lemmas for induction: over a set of numbers, over a finite set, and over the folds of the community modules |
| `MCReadyBarrier`, `MCKeepAlive`, `MCSession`, `MCUdpSequence`, `MCReplication`, `MCRound` | instances for TLC |

`PacketQueue`, `OwnedEvents`, `PlayerMirror`, `InputSync` and `ResultScreen` have no
variables of their own: an operator takes a machine (a record of what one process
knows of a player) and returns the machine after the call, as the functions of the code
do with their static variables. `Round` holds the machines and decides who calls what.

### ReadyBarrier

`pc` says whether a game plays, is in the loop of `wait_for_players`, or has no
connection any more; `step` counts the synchronization points it has gone past. All
games go through the same `Script` of points. `wait_requests` is the map of the code:
`NoRequest` is a missing entry, a number is `WaitRequest::count`. `value[n][id]` is the
data of a point as game `n` has it, abstracted to who chose it and at which point:
the stage, the characters and the seed themselves do not matter, only whose they are.
`toServer` and `toClient` are the TCP streams.

* `ServerEnter`/`ClientEnter`: the hook up to the loop. Where the original function
  runs first (`Immediate`) the game has its own value already; where the client
  skips it (`Deferred`) it has not, and takes its own only when the wait fails.
* `ServerReceive`/`ClientReceive`: one packet in `receive_loop` and `read`. One call
  of `receive_loop` may read several; how many depends on the network only, so they
  are separate steps.
* `ServerPass`/`ClientPass`: the end of the loop, and the data the server then sends
  together with its own `N_Ready` (for the points without data, `send_ready`).
* `ServerTimeout`/`ClientTimeout`: the end of `receive_loop`, and
  `Program::disconnect` when nobody is left.

`SyncPoint` is the promise: players enter a point one by one, and none leaves it
before all have entered. The refinement maps a blocked game to one that has entered
one point more than it has left.

### KeepAlive

`KeepAlive` extends `ReadyBarrier` by time. A tick is `KEEPALIVE_INTERVAL`; `Timeout` is
`connection_timeout` in ticks. In a tick any subset of the keep-alives that are sent
arrives, since they go by UDP: a game that is in `wait_for_players` sends none
(`Sends`), but reads and looks at the clocks (`Listens`), and a host that waits still
relays those of other clients, which count as its own at the receiver (`ServerHeard`).
`quietClient` and `quietServer` say how long a connection has been silent. The timeouts,
which `ReadyBarrier` lets come at any moment, come here when the silence has lasted
`Timeout` (`Expired`), before the next tick: `receive_loop` runs every frame. `Crash`
ends one process without a word.

### Session

A frame of the host is up to three steps, with the blocking receive of the handshake
in between; a client blocks from `ClientConnect` to the answer. `screen` is what
`can_connect` and `OnFrame` tell apart of the menus. An entry of `connections` holds
its node, the TCP connection behind it (`peer` and `serial`) and its UDP port, named by
the TCP connection on which the port was told (a client binds a new one for each of its
connections). Nodes are looked up as the code does, by the first entry that has
the node; when a node was given out twice, `SetRemotePort` therefore writes over the port
of the client that had it first. `HostRest` may drop any node that is watched at any time
and a client may time out at any time (`ClientDisconnect`): keep-alives go by UDP and may
all be lost, a game that waits for others sends none, and those of a client whose port
was written over match no entry. So a host may drop a client that is still in the
session, and a client may leave one that still has it. A client whose answer went to
another connection hears the host's broadcasts instead (`HearsBroadcasts`), which it takes
for a refusal (`ClientRejected`). `hooks` counts how many more times `events::Initialize`
ran than `Deinitialize`. The version and the password are abstracted to whether the
client is in `Accepted`. `own_pad` is where `swap_input` has put the client's own
controller in `ControllerPointers`; `set_player_number` swaps from place 0 when it has
no number, also when an earlier session has left its controller elsewhere.

### UdpSequence

`sequence` is the number of the next datagram of each player, `sequences` what the
receiver remembers. `index` counts a player's datagrams without wrapping; it is not in
the code and tells old from new in the properties.

### Replication

`value` is the memory of each game, `local` the shadow (`MemStruct`), `tcp_packet` the
packet of the frame. `Send` is a frame's `send_system` and `send_menu`, with the
requests in the order of the code; `Finalize` is the end of `OnInput`; `Read` takes or
skips the messages of a packet one after the other, so that a `GameState` in the packet
decides about those behind it. `Write`, `Move` and `EnterSubMenu` are the game. One
variable stands for each kind: those both players change (`TimeStopped`,
`PauseSelection`, `GameState` with its own conditions), one that each player has for
itself (`SpecialAttacks`), and those only the host sends, with a sub menu
(`StageSelection2P`; the other selections, characters and costumes are handled alike)
and without one (`BattleOptions`).

A round begins behind two points of the barrier, `Arrive` and `Pass`. `ReadyBarrier`
proves what is used here of it: the host goes on when it has read an `N_Ready` of every
client, a client when it has read the host's, through the same streams as the changes.
`OnInput` runs before the game in a frame and `OnFrame` after it, so a game that blocks
has sent what it had queued.

`ghost` is not in the code: the changes a player has skipped since it last took one,
those its own game has made, what it sent last, and whether it ever took a change of
another round.

### Round

A round seen by two machines: the owner, whose player it is, and the other one, whose
game replays that player. `OwnerFrame` is what a frame of the owner calls, in its order:
the result screen, `send_player`, `OnInput` with `finalize`, `OnControl`. `OtherFrame` is
the same for a player who is not one's own. `ReceiveTcp` and `ReceiveUdp` read a packet
with all its messages (`ReadAll`), each one as `read` does: the copy of the game's player
(unless `write_player` is set), `receive_player`, the write back, or a message handler.
TCP loses nothing and keeps its order; datagrams are lost and overtake each other, which
the filter of `UdpSequence` does not prevent altogether (`udp_sequence_reordered`), so
that `Round` takes every one that arrives; the two protocols overtake each other freely.

What happens in the owner's game (`Happening`) calls the hooks. `Replayed` is the same in
the other game, where the hooks must keep quiet; `Drift` is its physics, which moves the
player it replays. The code calls originals of the game at both machines. They are
external, and modelled as far as the hooks show what they do: a hit takes a barrier, else
all rings (through the hook of `AddRings`), else the life (through the hook of
`KillPlayer`), and in the owner's game nothing of a player who is hurt, dead or invincible
(`Unharmed`). The handler of `P_Damage` calls the original with `Status_Hurt` set
by itself (`Damage.cpp:115-116`), since the owner's game has decided already that the hit
counts: there the model spares an invincible player only (`Invincible`), not one that is
still hurt or dead in the other game. Each of `AddRings.cpp`, `Damage.cpp`
and `ItemBoxItems.cpp` has a handler of its own (`RingsHandled`, `DamageHandled`,
`ItemBoxHandled`); `P_HP` is read by `receive_player`.

`mixed` and `unled` are not in the code. They remember the two cases in which the machines
may differ, which are weaknesses of the code rather than of the model:

* `mixed`: the player was hit in the very frame its powers changed in (or an item box gave
  it one that it had), or its action. It is the set of those of the two that may differ.
  `P_Damage` leaves `write_player` set, so that the next message of the packet writes back
  a copy from before the hit; and what has not changed since the last copy of the owner,
  because the hit undid the change, is not sent again.
* `unled`: a client chose to go on from the result screen before its first `S_WinData`.
  The message then arrives with no screen to show it and is left in `remote_data` for the
  next round.

`play` is the theme of a round, `left` how many things may still happen in it. Position
is a coordinate of three places, the stick one axis of three positions, motion stands for
rotation and speed, action for action, next action, status and animation, powers for
powerups and upgrades. Messages of stick and direction carry a number, which the code
does not have, so that the properties can say which one was read last.

## 3. Runs

| Run | Instance | Shows |
|---|---|---|
| `ready_barrier` | 3 clients, 4 points, no timeouts | `CountIsExact`, `Agreement`, `AllReady`, `DataArrivesAtWaiter`, `EverybodyFinishes`, and that the barrier implements `SyncPoint` |
| `ready_barrier_timeouts` | 2 clients, 2 points with one identifier, `Timeout` = 2, one crash, any keep-alive lost (`KeepAlive`) | `TypeOK`, `NeverAhead`, `NobodyWaitsForever` |
| `ready_barrier_departure` | 2 clients, one may time out | violation of `DataArrivesAtWaiter` |
| `session` | 3 clients, one not accepted, two connects each, one restart of the host | `TypeOK`, `IdentitiesAgree`, `DatagramsAgree`, `SettingsFollowTheSession`, `HooksFollowTheSession`, `OnlyAcceptedPlay`, `OwnPadTheFirstTime` |
| `session_nodes` | the same | violation of `NodesAreUnique` |
| `session_hosting` | 2 clients | violation of `HostKeepsListening` |
| `udp_sequence` | 2 players, FIFO, 2 lost in a row, repeats, numbers to 6, 8 datagrams each | `TypeOK`, `SuccessorAccepted`, `LaterOrWrapped`, `NeverTwiceInARow` |
| `udp_sequence_reordered` | 1 player, reordering | violation of `NeverOlder` |
| `replication` | 2 players, 2 rounds, one change of a variable, two of `GameState` | `TypeOK`, `AgreeOrSwapped`, `SelectionIsShown`, `NothingStale`, `OwnersDecide` |
| `replication_watchers` | 3 players, 1 round, two changes, one of `GameState` | `WatchersFollow`, `AgreeOrSwapped`, `OwnersDecide`, `Settles` |
| `replication_crossing` | 2 players, two changes | violation of `PlayersAgree` |
| `round` | 2 machines, ten themes of 2 to 6 happenings, up to two datagrams on the way | `TypeOK`, `EventsAgree`, `HPAgrees`, `NothingEchoed`, `MirrorAgrees`, `ButtonsFollow`, `StickFollows`, `AngleFollows`, `PositionFollows`, `ResultFollows` |

Seven runs pass, and five show a violation on purpose.

The bounds. Three clients are the least with two others to relay to while one is
missing; the scripts repeat an identifier, since a count or a packet left over from
the first use would upset the second, and contain every kind of point (data taken
from the server only, data the client sets too, time only). Two connects of three
clients let a client return while another one has its number, and one restart is
enough for clients of two runs of the host to meet. `SeqMax` = 6 with eight datagrams
wraps once, with every combination of losses around the wrap. Two changes are the least that cross;
three values tell the crossing ones from each other and from the first. A change of the
first round can only be taken too late in a second one.

In `KeepAlive` two ticks are the least in which a keep-alive can be lost without a timeout,
and the second point has the identifier of the first, for the sake of what a timeout may
leave behind. In `Round` a theme brings together the kinds of things that meet in the code
(hits with rings and with powers, a barrier lost and the next hit, deaths with actions,
movement with actions and with the other game's physics, two wins in a row), and its count is enough for each of them to
happen in any order around the others; things of different themes share no field of a
machine. Thresholds of 2 in ranges of 3 make a movement below
and one above the threshold; the interval of the stick is two frames. The timers of
position and speed elapse only in the themes that move the player or watch the powers.
Two datagrams on the way (`MaxDatagrams`, a bound in the guard of `OwnerFrame`) are the least
of which one can overtake the other, and each may be late behind any number of TCP packets.

Fairness. `ReadyBarrier` assumes weak fairness of every process's steps: each game
runs, and `receive_loop` is called both in `OnFrame` and in the loop of the wait, so a
packet that has arrived is read. Nothing is assumed about timeouts. `Replication` assumes that frames go
on (`Send`, `Finalize`, the receptions, and the end of a wait), and nothing of what the
players do. `KeepAlive` assumes that time goes by and that the processes that live keep
running; keep-alives may all be lost. `Round` assumes weak fairness of the frames at both
machines, of the timers, of reading TCP and of a datagram's being read or lost, and strong
fairness of reading a datagram with `P_Position` or `P_Motion`: they are sent again every
time the interval has gone by, and a network that loses every single one of them is none. Nothing
is assumed of the datagrams that are sent once. `Session` and `UdpSequence` state safety
only.

Deadlock is checked for `ReadyBarrier` (the only state without a step is a game that
is over, `Done`), for `KeepAlive` and for `Round`. `Session`, `UdpSequence` and `Replication`
bound how often something may happen, and may stop there.

### Where the code does not do what is said of it

* **A counted client that leaves** (`ready_barrier_departure`). `c1` is ready and is
  counted, then its connection times out. One connection is left, the count is one:
  the server goes on although `c2` has not arrived, and `c2` gets the data while it is
  playing, which `OnStageChange.cpp:93-96` says the wait prevents. While nobody times
  out it cannot happen, which is proved.
* **Nodes are given out twice** (`session_nodes`). `add_connection` takes the number of
  connections plus one; after the first of two clients has timed out the next one gets
  the node of the second. `IdentitiesAgree` shows what survives: no client takes the
  number of another one, since the answers go to the wrong client, which ignores them;
  and `DatagramsAgree` that the port, which goes to the wrong entry as well, never makes
  the host take one player's datagrams for another's.
* **The host cannot be joined again** (`session_hosting`). `PacketHandler::host` stays
  set, so in the lobby without a connection `OnFrame` goes on to `receive_loop`, where 0
  timeouts are as many as 0 connections; every frame ends with `Program::disconnect`.
* **The filter accepts an older state** (`udp_sequence_reordered`): a refused datagram
  lowers the remembered number.
* **Changes that cross are swapped** (`replication_crossing`): each player takes the
  other's value, and notes it in the shadow as known to both. `AgreeOrSwapped` shows
  that this, and a change that came while the game did not want it, are the only ways
  to differ.

## 4. Proofs

Every safety property that a passing run checks is a theorem, for every value of the
constants. The assumptions are those of the modules (`Assumption` in their names) and,
where a theorem says so, one about its bounds.

### ReadyBarrier and KeepAlive

`ReadyBarrierProofs` proves for any number of clients and any script:

* `TypeCorrect`: `Spec => []TypeOK`, with timeouts.
* `CountIsExactHolds`, `AgreementHolds`: the two invariants, while `Mortal = {}`.
* `AllReadyHolds`, `DataArrivesAtWaiterHolds`: the two action properties.
* `Refinement`: the barrier implements `SyncPoint`.

The assumptions are those of the modules: the server is not a client, the clients are
finitely many, the script is a sequence of identifiers. Except for `TypeCorrect` the
theorems assume `Mortal = {}`: the run `ready_barrier_departure` shows that they fail
without it.

`CountIsExact` is not inductive: it says nothing of the packets on the way. The
inductive invariant describes every phase of a point. A client is at the server's point
or one point behind it, and in each case it fixes what the client's two streams hold: a
client that waits at the server's point has its `N_Ready` in `toServer` or counted; one
that waits at the point before has the server's packet in `toClient` behind packets that
other clients' relays put there. The count then equals the cardinality of the set of
clients that wait and have been read, and the lemmas about adding one element to a
finite set carry it through each step.

With timeouts it proves `NeverAheadHolds`: `Spec => []NeverAhead` for any number of
clients, any script and any set of clients that may time out. The invariant above fails
here, since the count of the server no longer means anything once a counted client is
gone. What remains (`TimeoutInv`) is about each client alone: how its own step compares
with the server's, and which packets of the server are still on the way to it, in the
order of the points; it speaks of no client's relation to another one, so that the
removal of one disturbs nothing.

`TimedBarrier`: every behaviour of `KeepAlive` is one of `ReadyBarrier` when every
client may time out (any client may fall silent, since its keep-alives may be lost,
hence the assumption `Mortal = Client`). From this and `TimeoutInv` follows
`TimedNeverAhead`, for any `Timeout`.

### UdpSequence

`UdpSequenceProofs` proves for any number of players, any `SeqMax` and a network that
may lose, repeat and reorder at will:

* `TypeCorrect`: `Spec => []TypeOK`.
* `SuccessorAcceptedHolds`: the filter never refuses the successor of the datagram that
  arrived last.
* `LaterOrWrappedHolds`: what is accepted after it is later, or the numbers wrapped
  between the two.

`SuccessorAccepted` speaks of how often a player has sent, the code compares 16-bit
numbers. The inductive invariant `Numbered` ties the two: a player's next number is
`sent % SeqMax + 1`, a datagram carries `(index - 1) % SeqMax + 1`, and the remembered
number is 0 (after a connection) or `arrived % SeqMax`. The lemma `ModSuccessor` says
what `NextSequence` does to a residue at the wrap and below it; since the remembered
number of the largest is 0, every successor is greater than it.

`NeverTwiceInARowHolds` is for a network that keeps the order (`Window = 1`) and numbers
enough for the losses (`2 * (MaxLost + 1) <= SeqMax`; the code has 65535 of them). Of
each player the network then holds the datagrams up to the last one sent, without a gap
and beginning close to the one that arrived last (`Fifo`), so that the next one to
arrive is at most `MaxLost + 1` further. If it is refused, its number has wrapped and is
at most `MaxLost + 1`, which `RefusedOnce` remembers: the one after it cannot wrap
again. The run has the smallest `SeqMax` that the assumption allows.

### Session

`SessionProofs` proves the invariants of the sessions for any number of clients and any
bounds. `SettingsFollowTheSessionHolds`, `HooksFollowTheSessionHolds` and
`OwnPadTheFirstTimeHolds` rest on `SessionInv`: a client waits for an answer only while
it is not in a session and has no number, one that is not in a session has given
everything back, and a client that has not been accepted yet has its controller in place
0.

`TypeOKHolds`, `OnlyAcceptedPlayHolds`, `IdentitiesAgreeHolds` and `DatagramsAgreeHolds`
need the host's side.
The code gives nodes out twice (`session_nodes`), so the invariant cannot say that they
differ. `MembershipInv` says what saves the players instead: everybody with an entry,
except for the one the host is shaking hands with, has been let in (`Vetted`); a TCP
connection is in one place, and none is later than the client's last (`Distinct`,
`Issued`); nobody is told anything before its connection is accepted (`Unheard`); the
number a client is told, or plays with, is the node of its entry (`Numbered`); and of
the entries with the same node only the first can have been answered (`ServedFirst`),
since an answer goes to the first one with the node. The port of an entry was told by a
connection of an accepted client, and whatever number that client is told or plays with
on that connection is the node of the entry (`Addressed`): that is `DatagramsAgree` before
the client has come online. The end of a handshake is a
broadcast, a fold over the set of connections: `FoldExists` gives the function that the
fold is, and `FiniteInduction` shows of it what the broadcast does to each stream.

### Replication

`ReplicationProofs` proves for any number of players, any messages, values and bounds:

* `TypeOKHolds`: among others, a packet never has a message twice.
* `NothingStaleHolds`: nobody takes a change of another round.
* `OwnersDecideHolds`: the action property.

The invariant is `TypeInv /\ BarrierInv /\ OwnerInv`. `BarrierInv` is the barrier
between two rounds as seen by the changes: on each stream the `N_Ready` separates the
packets of a round from those of the next, a client is at the host's point or one
behind, and the host's count is the number of clients that have been read. Hence whoever
reads a packet is in the round it was made in. `OwnerInv` says of every packet on the
way who may have made it. A packet is read by a fold over its messages; `ReadingEffect`
says what the fold has done to each variable, by induction over the length of the
packet.

`ReplicationAgreementProofs` proves with the same bounds what holds when nothing is
under way: `AgreeOrSwappedHolds`, `WatchersFollowHolds`, `SelectionIsShownHolds`. The
invariant `AgreeInv` follows a variable through a stream: of the changes of it under way
the newest is the last one that was sent (`NewestIsSent`); a player has heard of the
other's last change, or it flies to him, or he has skipped it, or the two have crossed
(`Heard`); a watcher holds or will hold what the last sender of the two players sent
(`Follows`); and a client that has not the host's selection will get it, has skipped it
or has changed its own (`SelectionInv`). Nothing of this looks into the order in which
the packets of different senders interleave: it speaks of the newest change of each
stream.

### Round

`RoundProofs` proves for any themes of any length, any thresholds and any number of
datagrams on the way: `TypeOKHolds`, `NothingEchoedHolds`, `HPAgreesHolds`,
`EventsAgreeHolds`, `MirrorAgreesHolds`.

The three about agreement speak of a moment when nothing is under way; the invariant has
to speak of all the others. It does so in terms of what the other machine *knows*
(`Follows`): the HP is `v`, the action is `v`, or the rings, deaths and items shown are
those of `v` and the powers lie between two sets, and the same holds of the copy if
`write_player` says that it is still to be written. A message `Turns` one knowledge into
another if it does so on every machine, a packet `Leads` from one to another message by
message, and the stream is a `Chain` of such packets. The invariant (`Inv == TypeInv /\
EventInv(owner, other, stream, mixed)`) then is:

* `HPInv`: the stream, and behind it the packet of the frame, lead to the owner's HP. It
  survives whatever is in between because `P_HP` carries the HP as well as the change.
* `PowersInv`: the stream leads to the powers of the owner's last copy exactly, and the
  packet of the frame from there to `Present`: at least what the owner has, and what
  item boxes gave in this frame, and at most what it has or had in the copy.
  `send_player` then closes the gap with `P_Powerups`, or finds that there is none.
* `ActionInv`: the stream leads to the action of the owner's last copy, and a hit that
  is in the packet of the frame will have `P_Action` follow it, since the action in the
  copy was not one of a hit.
* `PacketInv`: a hit or a death that is not told yet shows in the owner.

The other machine's side is simple: a packet is read by definition of `Leads`, and the
other actions of that machine, and datagrams, leave what is known (`AsGood`). The
owner's side is one lemma per hook. `RoundReadingProofs` holds what both rest on: what
an operation of the five modules does to a machine, field by field, and that a message
belongs to one of three kinds (`EveryType`).

### Technique

The library states induction with an operator as a parameter, which no backend here can
instantiate. `Induction` states it over sets instead: a set of numbers that has 0 and
with a number its successor is `Nat` (`SetInduction`), proved from the least number of
its complement, and likewise for the subsets of a finite set (`FiniteInduction`). A use
defines the set of the lengths (or of the subsets) for which the claim holds. The
recursive functions by which packets are read, and the folds by which they are built,
are treated in this way, so that what they compute is proved for packets of any length.

Two definitions of the model turned out wrong in the proofs. `MirrorAgrees` once excused
a hit only in a frame in which the powers changed; an item box that gives what the
player has already, or an action that changes in the frame of the hit and is undone by
it, lead to the same difference beyond the bounds of the run that passed. `mixed` and
two themes of the run now cover them. In `OwnedEvents` the handler of `P_Damage` had
overlapping cases.

Only model-checked is what holds under fairness: `EverybodyFinishes`,
`NobodyWaitsForever`, `Settles`, and the properties of `Round` that end in `Follow` or
`Follows`. Liveness is out of the prover's reach.

## 5. What is abstracted or left out

* A packet sent on a connection that the other side has closed is lost. The code may
  also get a socket error, which throws out of `OnFrame`.
* A client whose connection is closed during its handshake aborts: `receive_tcp`
  throws, and nothing catches (`ClientAborts`).
* `hooks` = -1 stands for any number of removals too many (trampolines deleted twice). At
  the host this happens, since `Program::disconnect` removes the hooks in every frame in
  the lobby without a connection; and after a refused handshake, which closes the
  connections and leaves the hooks, the next client makes the host install them twice.
  `HooksFollowTheSession` is about clients, whose hooks come and go with their one
  connection; the model keeps the host's count for the sake of the actions, and no
  property is about it.
* `rejected` is in the model, with what sets and resets it, but no property is about it.
* `ClientTimeout` of `ReadyBarrier` lets a game go on with its own value after a wait that
  failed. In the code `Program::disconnect` has deleted the trampoline by then through
  which `SetCurrentLevel` and `srand_hook` call the original function
  (`OnStageChange.cpp:72`, `Random.cpp:53`); what freed memory does is not modelled.
* `N_Disconnect` is handled by `read` but never sent; it is left out.
* Closing and starting the host's game again is `HostRestart`.
* `S_Time`, which goes by UDP, and the work-around in `send_menu` that resets the
  character selection are left out of `Replication`; so are the timeouts of connections, and the game's own steps
  to the restarting states of `GameState` (`NormalRestart`, which `receive_system` compares with
  and `Takes` has), which would add further ways out of a round.
  The pose at the start of a round counts as loading. Those who watch do not change
  variables.
* A process that ends in `KeepAlive` does not come back; `Session` has the restart.
* `Round`: both machines are in the round all the time (`GameState` at least `Ingame`,
  `round_started()`). A player who was hit is not hit again, and does not recover, before
  the packet of that frame is sent; powers other than barriers do not wear off in the
  frame they were gained in. The owner is the host in the theme of the result screen. Left
  out: the cheat that teleports, spectators, relays (which `Replication` has), the
  second stick, the triggers, the pressed edges of the buttons (which follow from
  them), the rumble, the interval of small rotations, scale, spin timer and `OnResult`,
  which is handled as `OnWin`.
* `StickFollows` and `AngleFollows` speak of the case in which the last message was read
  last. If it is lost, or overtaken by an older one, the remote stick stays where it is
  until the next movement: the code sends a stick that rests no more.
* `OwnPadTheFirstTime` speaks of a client's first session: a later one may start from
  swapped controllers, since `initialize` forgets the number and swaps nothing back.
* Music, statistics, logging and the contents of settings are left out.

Not modelled:

* The seed of the emeralds: its synchronized `srand` is the point `S_Seed` of
  `ReadyBarrier`. What `EmeraldSync.cpp` adds is to save the seed before it and to restore
  it afterwards, in one thread.
* The addresses and layouts of the game's memory, the overloads that write structures into
  packets, the entry of the mod and reading the configuration. They have no control to
  check, or nothing to interleave with.
* What happens between the end of `Program::disconnect` in `OnFrame` and the end of that
  frame, where the code indexes arrays by the player number -1: the outcome depends on
  the layout of the game's memory.
