----------------------------- MODULE VoiceMasks -----------------------------
(* Who hears whom: a client's CVoiceStatus tells the server whom its user has muted and whether he wants voice at all,*)
(* and the server's CVoiceGameMgr keeps a mask for each slot, sends it back when it changes and sets the engine's     *)
(* listening table.  Requests and masks travel by the reliable channel, bans by datagrams that get lost.  Both ends   *)
(* outlive the connection: the server's masks belong to the slot, whoever sits there, and the client's picture of     *)
(* them to the process, whichever server it is connected to.                                                          *)
(* One slot is followed, with all clients that use it one after the other.  The server keeps the same state for the   *)
(* other slots and handles each by itself: of those only the players matter here.                                     *)
EXTENDS Integers, Sequences

CONSTANTS
  Clients,       \* players that use the followed slot, by their unique IDs
  Others,        \* players in other slots
  Slots, Mine,   \* client slots of the server, and the one that is followed
  NoPlayer,      \* an empty slot
  Team(_),       \* the team of a player, for CanPlayerHearPlayer
  MaxFlight,     \* bound: messages of one kind on their way
  MaxInputs      \* bound: what users and the administrator do

ASSUME VoiceAssumption == Mine \in Slots /\ NoPlayer \notin (Clients \cup Others)
ASSUME BoundsAssumption == MaxFlight \in Nat /\ MaxInputs \in Nat

VARIABLES
  player,                  \* who is in a slot
  sv_alltalk,
  g_PlayerModEnable,       \* the player in the slot wants voice
  g_bWantModEnable,        \* he is still asked for it
  g_BanMask,               \* whom he does not want to hear
  g_SentGameRulesMask, g_SentBanMask,   \* what his client has been sent
  listening,               \* the slot's row of the engine's table: whom it hears
  voice_modenable,         \* clients whose user has set this variable
  banned,                  \* m_BanMgr: the players a client's user has muted
  m_bServerModEnable, m_ServerBannedPlayers,   \* what a client believes of the server
  late,                    \* the client's m_LastUpdateServerState is ahead of the clock of this connection
  toClient, toServer, vban,                    \* messages on their way
  inputs

server == <<g_PlayerModEnable, g_bWantModEnable, g_BanMask, g_SentGameRulesMask, g_SentBanMask, listening>>
belief == <<m_bServerModEnable, m_ServerBannedPlayers, late>>
user == <<player, sv_alltalk, voice_modenable, banned>>
net == <<toClient, toServer, vban>>
vars == <<server, belief, user, net, inputs>>

ReqState == [type |-> "ReqState"]
VoiceMask(bans) == [type |-> "VoiceMask", bans |-> bans]

TypeOK ==
  /\ player \in [Slots -> Clients \cup Others \cup {NoPlayer}]
  /\ {sv_alltalk, g_PlayerModEnable, g_bWantModEnable, late} \subseteq BOOLEAN
  /\ {g_BanMask, g_SentGameRulesMask, g_SentBanMask, listening} \subseteq SUBSET Slots
  /\ voice_modenable \subseteq Clients
  /\ banned \in [Clients -> SUBSET Others]
  /\ m_bServerModEnable \in [Clients -> -1..1]
  /\ m_ServerBannedPlayers \in [Clients -> SUBSET Slots]
  /\ toClient \in Seq({ReqState} \cup {VoiceMask(b) : b \in SUBSET Slots}) /\ Len(toClient) <= MaxFlight
  /\ toServer \in Seq({0, 1}) /\ Len(toServer) <= MaxFlight
  /\ vban \in Seq(SUBSET Slots) /\ Len(vban) <= MaxFlight
  /\ inputs \in 0..MaxInputs

Init ==
  /\ player = [s \in Slots |-> NoPlayer]
  /\ sv_alltalk = FALSE
  /\ g_PlayerModEnable = FALSE /\ g_bWantModEnable = FALSE
  /\ g_BanMask = {} /\ g_SentGameRulesMask = {} /\ g_SentBanMask = {} /\ listening = {}
  /\ voice_modenable \in {Clients, {}}
  /\ banned = [c \in Clients |-> {}]
  /\ m_bServerModEnable = [c \in Clients |-> -1]
  /\ m_ServerBannedPlayers = [c \in Clients |-> {}]
  /\ late = FALSE
  /\ toClient = <<>> /\ toServer = <<>> /\ vban = <<>>
  /\ inputs = 0

Taken == {s \in Slots : player[s] # NoPlayer}
me == player[Mine]
Connected == me # NoPlayer
CanPlayerHearPlayer(p, o) == sv_alltalk \/ Team(p) = Team(o)

\* Whom the slot may hear: its own player and those of his team, or everyone, if he wants voice.
gameRulesMask == {o \in Taken : g_PlayerModEnable /\ CanPlayerHearPlayer(me, player[o])}

-----------------------------------------------------------------------------
\* The client.

ModEnable(c) == IF c \in voice_modenable THEN 1 ELSE 0
\* Slots without a player are left out on both sides of the comparison.
banMask(bans) == {s \in Taken : player[s] \in bans}
serverBanMask == m_ServerBannedPlayers[me] \cap Taken

\* UpdateServerState, with these bans.  The picture of the server's bans changes only when it answers.  A datagram
\* that finds the way full is lost at once.
UpdateServerState(bForce, bans) ==
  LET tellMod == bForce \/ m_bServerModEnable[me] # ModEnable(me)
      tellBans == bForce \/ banMask(bans) # serverBanMask
  IN  /\ tellMod => Len(toServer) < MaxFlight
      /\ m_bServerModEnable' = [m_bServerModEnable EXCEPT ![me] = ModEnable(me)]
      /\ toServer' = IF tellMod THEN Append(toServer, ModEnable(me)) ELSE toServer
      /\ vban' = IF tellBans /\ Len(vban) < MaxFlight THEN Append(vban, banMask(bans)) ELSE vban
      /\ late' = FALSE

\* Frame: once per second, which is much later if the last time is that of a server that has run for longer.
Frame ==
  /\ Connected /\ ~late
  /\ UpdateServerState(FALSE, banned[me])
  /\ UNCHANGED <<server, user, m_ServerBannedPlayers, toClient, inputs>>

\* The clock of this connection reaches the time of the last update, after hours or never.
ClockCatchesUp ==
  /\ late /\ late' = FALSE
  /\ UNCHANGED <<server, m_bServerModEnable, m_ServerBannedPlayers, user, net, inputs>>

\* Mutant: the byte past the end is read as an unsigned one.
HandleVoiceMaskMsgByte(msg) ==
  /\ m_ServerBannedPlayers' = [m_ServerBannedPlayers EXCEPT ![me] = msg.bans]
  /\ m_bServerModEnable' = [m_bServerModEnable EXCEPT ![me] = 255]
  /\ UNCHANGED <<late, toServer, vban>>
\* HandleVoiceMaskMsg: it reads a byte more than the message has, which is -1.
HandleVoiceMaskMsg(msg) ==
  /\ m_ServerBannedPlayers' = [m_ServerBannedPlayers EXCEPT ![me] = msg.bans]
  /\ m_bServerModEnable' = [m_bServerModEnable EXCEPT ![me] = -1]
  /\ UNCHANGED <<late, toServer, vban>>

HandleReqStateMsg == UpdateServerState(TRUE, banned[me]) /\ UNCHANGED m_ServerBannedPlayers

Receive ==
  /\ toClient # <<>>
  /\ toClient' = Tail(toClient)
  /\ \/ Head(toClient).type = "VoiceMask" /\ HandleVoiceMaskMsg(Head(toClient))
     \/ Head(toClient).type = "ReqState" /\ HandleReqStateMsg
  /\ UNCHANGED <<server, user, inputs>>

-----------------------------------------------------------------------------
\* The server.

VModEnable ==
  /\ toServer # <<>>
  /\ g_PlayerModEnable' = (Head(toServer) = 1)
  /\ g_bWantModEnable' = FALSE
  /\ toServer' = Tail(toServer)
  /\ UNCHANGED <<g_BanMask, g_SentGameRulesMask, g_SentBanMask, listening, belief, user, toClient, vban, inputs>>

VBan ==
  /\ vban # <<>>
  /\ g_BanMask' = Head(vban)
  /\ vban' = Tail(vban)
  /\ UNCHANGED <<g_PlayerModEnable, g_bWantModEnable, g_SentGameRulesMask, g_SentBanMask, listening, belief, user,
                 toClient, toServer, inputs>>

LoseVBan ==
  /\ vban # <<>>
  /\ vban' = Tail(vban)
  /\ UNCHANGED <<server, belief, user, toClient, toServer, inputs>>

\* What UpdateMasks sends.
News ==
  (IF g_bWantModEnable THEN <<ReqState>> ELSE <<>>)
  \o (IF gameRulesMask # g_SentGameRulesMask \/ g_BanMask # g_SentBanMask THEN <<VoiceMask(g_BanMask)>> ELSE <<>>)

\* UpdateMasks, every 0.3 s of the game rules' Think.
UpdateMasks ==
  /\ Connected
  /\ Len(toClient \o News) <= MaxFlight
  /\ toClient' = toClient \o News
  /\ g_SentGameRulesMask' = gameRulesMask
  /\ g_SentBanMask' = g_BanMask
  /\ listening' = gameRulesMask \ g_BanMask
  /\ UNCHANGED <<g_PlayerModEnable, g_bWantModEnable, g_BanMask, belief, user, toServer, vban, inputs>>

\* Mutant: what the slot has been sent is kept.
ClientConnectedKeepsSent == g_bWantModEnable' = TRUE /\ UNCHANGED <<g_SentGameRulesMask, g_SentBanMask>>
\* Mutant: the client is not asked for its state.
ClientConnectedUnasked == g_SentGameRulesMask' = {} /\ g_SentBanMask' = {} /\ UNCHANGED g_bWantModEnable
\* ClientConnected: the bans and the wish for voice are those of whoever was in the slot before.
ClientConnected ==
  /\ g_bWantModEnable' = TRUE
  /\ g_SentGameRulesMask' = {} /\ g_SentBanMask' = {}

-----------------------------------------------------------------------------
\* What users and the administrator do, and what the engine makes of it.

Act == inputs < MaxInputs /\ inputs' = inputs + 1

Connect(c) ==
  /\ Act /\ ~Connected
  /\ player' = [player EXCEPT ![Mine] = c]
  /\ ClientConnected
  /\ late' \in BOOLEAN
  /\ UNCHANGED <<sv_alltalk, voice_modenable, banned, g_PlayerModEnable, g_BanMask, listening, m_bServerModEnable,
                 m_ServerBannedPlayers, net>>

\* Whatever was on its way is lost with the connection.
Disconnect ==
  /\ Act /\ Connected
  /\ player' = [player EXCEPT ![Mine] = NoPlayer]
  /\ toClient' = <<>> /\ toServer' = <<>> /\ vban' = <<>>
  /\ UNCHANGED <<server, belief, sv_alltalk, voice_modenable, banned>>

OtherConnects(o, s) ==
  /\ Act /\ s # Mine /\ player[s] = NoPlayer /\ \A t \in Slots : player[t] # o
  /\ player' = [player EXCEPT ![s] = o]
  /\ UNCHANGED <<server, belief, sv_alltalk, voice_modenable, banned, net>>

OtherLeaves(s) ==
  /\ Act /\ s # Mine /\ player[s] # NoPlayer
  /\ player' = [player EXCEPT ![s] = NoPlayer]
  /\ UNCHANGED <<server, belief, sv_alltalk, voice_modenable, banned, net>>

\* The next map: every client connects again, to its slot, and the clock starts again.
ChangeLevel ==
  /\ Act /\ Connected
  /\ ClientConnected
  /\ late' \in BOOLEAN
  /\ toClient' = <<>> /\ toServer' = <<>> /\ vban' = <<>>
  /\ UNCHANGED <<user, g_PlayerModEnable, g_BanMask, listening, m_bServerModEnable, m_ServerBannedPlayers>>

\* The server is started again, or the client goes to another one that has just been started.
RestartServer ==
  /\ Act
  /\ player' = [s \in Slots |-> NoPlayer]
  /\ g_PlayerModEnable' = FALSE /\ g_bWantModEnable' = FALSE
  /\ g_BanMask' = {} /\ g_SentGameRulesMask' = {} /\ g_SentBanMask' = {} /\ listening' = {}
  /\ toClient' = <<>> /\ toServer' = <<>> /\ vban' = <<>>
  /\ UNCHANGED <<belief, sv_alltalk, voice_modenable, banned>>

\* The user mutes a player in the scoreboard, or lets him talk again.
SetPlayerBlockedState(s) ==
  /\ Act /\ Connected /\ player[s] \in Others
  /\ LET bans == IF player[s] \in banned[me] THEN banned[me] \ {player[s]} ELSE banned[me] \cup {player[s]}
     IN  banned' = [banned EXCEPT ![me] = bans] /\ UpdateServerState(FALSE, bans)
  /\ UNCHANGED <<server, player, sv_alltalk, voice_modenable, m_ServerBannedPlayers, toClient>>

\* The variable is set in the console, or because the user talks.
SetModEnable ==
  /\ Act /\ Connected
  /\ voice_modenable' = IF me \in voice_modenable THEN voice_modenable \ {me} ELSE voice_modenable \cup {me}
  /\ UNCHANGED <<server, belief, player, sv_alltalk, banned, net>>

SetAllTalk ==
  /\ Act /\ sv_alltalk' = ~sv_alltalk
  /\ UNCHANGED <<server, belief, player, voice_modenable, banned, net>>

Next ==
  \/ Frame \/ ClockCatchesUp \/ Receive \/ VModEnable \/ VBan \/ LoseVBan \/ UpdateMasks
  \/ Disconnect \/ ChangeLevel \/ RestartServer \/ SetModEnable \/ SetAllTalk
  \/ \E c \in Clients : Connect(c)
  \/ \E s \in Slots : OtherLeaves(s) \/ SetPlayerBlockedState(s) \/ \E o \in Others : OtherConnects(o, s)

\* Frames and the reliable channel go on; of the datagrams that a client sends again and again some arrive.
Fairness == WF_vars(UpdateMasks) /\ WF_vars(Frame) /\ WF_vars(Receive) /\ WF_vars(VModEnable) /\ SF_vars(VBan)

Spec == Init /\ [][Next]_vars /\ Fairness

-----------------------------------------------------------------------------
\* Neither end has anything more to say: nothing is on its way, UpdateMasks would do nothing and Frame would send
\* nothing.
Settled ==
  /\ net = <<<<>>, <<>>, <<>>>>
  /\ News = <<>> /\ listening = gameRulesMask \ g_BanMask
  /\ m_bServerModEnable[me] = ModEnable(me) /\ serverBanMask = banMask(banned[me])

\* The two ends never agree on something wrong, whatever was lost, whoever was in the slot or on the server before:
\* when nothing more is said about a client whose user wants voice, he hears those that the rules let him hear and that
\* he has not muted; one who wants none hears nobody.
SettledMeansRight ==
  Connected /\ Settled =>
    listening = {o \in Taken : me \in voice_modenable /\ CanPlayerHearPlayer(me, player[o]) /\ player[o] \notin banned[me]}

\* The exchange comes to an end: when users leave it alone, a connected client whose user wants voice is settled in the
\* end, even one whose clock says that its last update lies ahead.
Settles == <>[](Connected /\ me \in voice_modenable => Settled)

=============================================================================
