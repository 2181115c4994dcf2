--------------------------- MODULE VoiceMasksProofs ---------------------------
(* What the two ends of the voice control believe of each other, for every number of players and slots, whatever is    *)
(* lost and whoever uses the slot: nothing more is said only when the client hears whom it should.                     *)
EXTENDS VoiceMasks, SequenceTheorems, TLAPS

Message == {ReqState} \cup {VoiceMask(b) : b \in SUBSET Slots}

IsMask(i) == toClient[i].type = "VoiceMask"

\* The followed slot is used by clients only, and an empty one has nothing on its way.
SlotUse ==
  /\ me \in Clients \cup {NoPlayer}
  /\ ~Connected => net = <<<<>>, <<>>, <<>>>>

\* What a client believes that the server knows of its wish for voice is what it has told last; the answer to a mask
\* makes it forget.
WishKnown ==
  Connected /\ m_bServerModEnable[me] # -1 =>
    /\ toServer # <<>> => toServer[Len(toServer)] = m_bServerModEnable[me]
    /\ toServer = <<>> /\ ~g_bWantModEnable => (g_PlayerModEnable <=> m_bServerModEnable[me] = 1)

\* The last mask that is on its way to the client, or what the client has made of it, holds the bans that the slot has
\* been sent - if they can be told from those of a slot that has been sent nothing.
BansKnown ==
  Connected /\ g_SentGameRulesMask \cup g_SentBanMask # {} =>
    /\ \A i \in 1 .. Len(toClient) :
         IsMask(i) /\ (\A j \in i + 1 .. Len(toClient) : ~IsMask(j)) => toClient[i].bans = g_SentBanMask
    /\ (\A i \in 1 .. Len(toClient) : ~IsMask(i)) => m_ServerBannedPlayers[me] = g_SentBanMask

VInv == TypeOK /\ SlotUse /\ WishKnown /\ BansKnown

-----------------------------------------------------------------------------
LEMMA Messages ==
  /\ ReqState \in Message /\ ReqState.type = "ReqState"
  /\ \A b \in SUBSET Slots : VoiceMask(b) \in Message /\ VoiceMask(b).type = "VoiceMask" /\ VoiceMask(b).bans = b
  /\ \A m \in Message : m.type = "VoiceMask" => m.bans \in SUBSET Slots
<1>1. \A b \in SUBSET Slots : VoiceMask(b) \in Message /\ VoiceMask(b).type = "VoiceMask" /\ VoiceMask(b).bans = b
  BY DEF Message, VoiceMask
<1>2. ReqState \in Message /\ ReqState.type = "ReqState"
  BY DEF Message, ReqState
<1>3. ASSUME NEW m \in Message, m.type = "VoiceMask" PROVE m.bans \in SUBSET Slots
  <2>1. m # ReqState
    BY <1>2, <1>3
  <2>2. PICK b \in SUBSET Slots : m = VoiceMask(b)
    BY <2>1 DEF Message
  <2> QED BY <1>1, <2>2
<1> QED BY <1>1, <1>2, <1>3

\* UpdateServerState leaves the client believing that the server knows its wish, which it is told unless the client
\* believed so before.
LEMMA UpdateTells ==
  ASSUME TypeOK, Connected, me \in Clients, NEW bForce \in BOOLEAN, NEW bans, UpdateServerState(bForce, bans)
  PROVE  /\ m_bServerModEnable' \in [Clients -> -1..1] /\ m_bServerModEnable'[me] = ModEnable(me)
         /\ \A c \in Clients \ {me} : m_bServerModEnable'[c] = m_bServerModEnable[c]
         /\ toServer' \in Seq({0, 1}) /\ Len(toServer') <= MaxFlight
         /\ vban' \in Seq(SUBSET Slots) /\ Len(vban') <= MaxFlight
         /\ late' \in BOOLEAN
         /\ \/ toServer' = toServer /\ m_bServerModEnable' = m_bServerModEnable
            \/ toServer' = Append(toServer, ModEnable(me))
<1>1. ModEnable(me) \in {0, 1} /\ ModEnable(me) \in -1..1
  BY DEF ModEnable
<1>2. banMask(bans) \in SUBSET Slots
  BY DEF banMask, Taken
<1>3. m_bServerModEnable \in [Clients -> -1..1] /\ toServer \in Seq({0, 1}) /\ vban \in Seq(SUBSET Slots)
      /\ Len(toServer) <= MaxFlight /\ Len(vban) <= MaxFlight
  BY DEF TypeOK
<1>4. /\ m_bServerModEnable' = [m_bServerModEnable EXCEPT ![me] = ModEnable(me)]
      /\ late' = FALSE
      /\ \/ toServer' = toServer /\ m_bServerModEnable[me] = ModEnable(me)
         \/ toServer' = Append(toServer, ModEnable(me)) /\ Len(toServer) < MaxFlight
  BY DEF UpdateServerState
<1>5. \/ vban' = vban
      \/ vban' = Append(vban, banMask(bans)) /\ Len(vban) < MaxFlight
  BY DEF UpdateServerState
<1>6. toServer' \in Seq({0, 1}) /\ Len(toServer') <= MaxFlight
  <2>1. /\ Append(toServer, ModEnable(me)) \in Seq({0, 1})
        /\ Len(Append(toServer, ModEnable(me))) = Len(toServer) + 1 /\ Len(toServer) \in Nat
    BY <1>1, <1>3, AppendProperties, LenProperties
  <2> QED BY <1>3, <1>4, <2>1, BoundsAssumption
<1>7. vban' \in Seq(SUBSET Slots) /\ Len(vban') <= MaxFlight
  <2>1. /\ Append(vban, banMask(bans)) \in Seq(SUBSET Slots)
        /\ Len(Append(vban, banMask(bans))) = Len(vban) + 1 /\ Len(vban) \in Nat
    BY <1>2, <1>3, AppendProperties, LenProperties
  <2> QED BY <1>3, <1>5, <2>1, BoundsAssumption
<1>8. m_bServerModEnable[me] = ModEnable(me) => m_bServerModEnable' = m_bServerModEnable
  BY <1>3, <1>4
<1> QED BY <1>1, <1>3, <1>4, <1>6, <1>7, <1>8

LEMMA NewsTypes ==
  ASSUME TypeOK
  PROVE  /\ News \in Seq(Message)
         /\ gameRulesMask = g_SentGameRulesMask /\ g_BanMask = g_SentBanMask => News \in {<<>>, <<ReqState>>}
         /\ gameRulesMask # g_SentGameRulesMask \/ g_BanMask # g_SentBanMask =>
              News \in {<<VoiceMask(g_BanMask)>>, <<ReqState, VoiceMask(g_BanMask)>>}
         /\ News = <<>> => ~g_bWantModEnable /\ gameRulesMask = g_SentGameRulesMask /\ g_BanMask = g_SentBanMask
<1> DEFINE told == gameRulesMask # g_SentGameRulesMask \/ g_BanMask # g_SentBanMask
           ask == IF g_bWantModEnable THEN <<ReqState>> ELSE <<>>
           tell == IF told THEN <<VoiceMask(g_BanMask)>> ELSE <<>>
<1>1. News = ask \o tell
  BY DEF News
<1>2. g_BanMask \in SUBSET Slots
  BY DEF TypeOK
<1>3. ReqState \in Message /\ VoiceMask(g_BanMask) \in Message
  BY <1>2, Messages
<1> HIDE DEF told
<1>4. News = IF g_bWantModEnable THEN IF told THEN <<ReqState, VoiceMask(g_BanMask)>> ELSE <<ReqState>>
             ELSE IF told THEN <<VoiceMask(g_BanMask)>> ELSE <<>>
  BY <1>1
<1> QED BY <1>3, <1>4 DEF told

-----------------------------------------------------------------------------
(* The type invariant, with who uses the slot. *)

LEMMA TypeStep == TypeOK /\ SlotUse /\ [Next]_vars => TypeOK' /\ SlotUse'
<1> SUFFICES ASSUME TypeOK, SlotUse, [Next]_vars PROVE TypeOK' /\ SlotUse'
  OBVIOUS
<1> USE VoiceAssumption, BoundsAssumption
<1> DEFINE Srv == /\ {sv_alltalk, g_PlayerModEnable, g_bWantModEnable, late} \subseteq BOOLEAN
                  /\ {g_BanMask, g_SentGameRulesMask, g_SentBanMask, listening} \subseteq SUBSET Slots
           Usr == /\ player \in [Slots -> Clients \cup Others \cup {NoPlayer}]
                  /\ voice_modenable \subseteq Clients /\ banned \in [Clients -> SUBSET Others]
                  /\ inputs \in 0..MaxInputs
           Cl == /\ m_bServerModEnable \in [Clients -> -1..1]
                 /\ m_ServerBannedPlayers \in [Clients -> SUBSET Slots]
           ToC == toClient \in Seq(Message) /\ Len(toClient) <= MaxFlight
           ToS == toServer \in Seq({0, 1}) /\ Len(toServer) <= MaxFlight
           Bans == vban \in Seq(SUBSET Slots) /\ Len(vban) <= MaxFlight
<1>0. Srv /\ Usr /\ Cl /\ ToC /\ ToS /\ Bans
  BY DEF TypeOK, Message
<1> SUFFICES Srv' /\ Usr' /\ Cl' /\ ToC' /\ ToS' /\ Bans' /\ SlotUse'
  BY DEF TypeOK, Message
<1>1. CASE Frame
  <2>1. me \in Clients /\ UpdateServerState(FALSE, banned[me])
    BY <1>1 DEF Frame, SlotUse, Connected
  <2>2. Cl' /\ ToS' /\ Bans' /\ late' \in BOOLEAN
    BY <1>0, <1>1, <2>1, UpdateTells DEF Frame
  <2>3. Srv' /\ Usr' /\ ToC'
    BY <1>0, <1>1, <2>2 DEF Frame, server, user
  <2>4. SlotUse'
    BY <1>1 DEF Frame, user, SlotUse, me, Connected
  <2> QED BY <2>2, <2>3, <2>4
<1>2. CASE ClockCatchesUp
  BY <1>0, <1>2 DEF ClockCatchesUp, server, user, net, SlotUse, me, Connected
<1>3. CASE Receive
  <2>0. Head(toClient) \in Message /\ Tail(toClient) \in Seq(Message) /\ Len(Tail(toClient)) <= MaxFlight
    BY <1>0, <1>3, HeadTailProperties DEF Receive
  <2>1. me \in Clients /\ Connected
    <3>1. Connected
      BY <1>3 DEF Receive, SlotUse, net
    <3> QED BY <3>1 DEF SlotUse, Connected
  <2>2. ToC' /\ Srv' /\ Usr' /\ Cl' /\ ToS' /\ Bans'
    <3>1. CASE HandleReqStateMsg
      <4>1. Cl' /\ ToS' /\ Bans' /\ late' \in BOOLEAN
        BY <1>0, <2>1, <3>1, UpdateTells DEF HandleReqStateMsg
      <4> QED BY <1>0, <1>3, <2>0, <4>1 DEF Receive, server, user
    <3>2. CASE Head(toClient).type = "VoiceMask" /\ HandleVoiceMaskMsg(Head(toClient))
      <4>1. Head(toClient).bans \in SUBSET Slots
        BY <2>0, <3>2, Messages
      <4>2. Cl'
        <5>1. m_bServerModEnable' = [m_bServerModEnable EXCEPT ![me] = -1] /\ -1 \in -1..1
          BY <3>2 DEF HandleVoiceMaskMsg
        <5>2. m_ServerBannedPlayers' = [m_ServerBannedPlayers EXCEPT ![me] = Head(toClient).bans]
          BY <3>2 DEF HandleVoiceMaskMsg
        <5>3. m_bServerModEnable' \in [Clients -> -1..1]
          BY <1>0, <5>1
        <5>4. m_ServerBannedPlayers' \in [Clients -> SUBSET Slots]
          BY <1>0, <4>1, <5>2
        <5> QED BY <5>3, <5>4
      <4>3. ToS' /\ Bans' /\ late' \in BOOLEAN
        BY <1>0, <3>2 DEF HandleVoiceMaskMsg
      <4> QED BY <1>0, <1>3, <2>0, <4>2, <4>3 DEF Receive, server, user
    <3> QED BY <1>3, <3>1, <3>2 DEF Receive
  <2>3. SlotUse'
    BY <1>3, <2>1 DEF Receive, user, SlotUse, me, Connected
  <2> QED BY <2>2, <2>3
<1>4. CASE VModEnable
  <2>1. Tail(toServer) \in Seq({0, 1}) /\ Len(Tail(toServer)) <= MaxFlight
    BY <1>0, <1>4, HeadTailProperties DEF VModEnable
  <2>2. SlotUse'
    BY <1>4 DEF VModEnable, user, SlotUse, me, Connected, net
  <2> QED BY <1>0, <1>4, <2>1, <2>2 DEF VModEnable, belief, user
<1>5. CASE VBan \/ LoseVBan
  <2>1. Head(vban) \in SUBSET Slots /\ Tail(vban) \in Seq(SUBSET Slots) /\ Len(Tail(vban)) <= MaxFlight
    BY <1>0, <1>5, HeadTailProperties DEF VBan, LoseVBan
  <2>2. SlotUse'
    BY <1>5 DEF VBan, LoseVBan, user, SlotUse, me, Connected, net
  <2> QED BY <1>0, <1>5, <2>1, <2>2 DEF VBan, LoseVBan, belief, user, server
<1>6. CASE UpdateMasks
  <2>1. toClient \o News \in Seq(Message)
    BY <1>0, NewsTypes, ConcatProperties
  <2>2. gameRulesMask \in SUBSET Slots
    BY DEF gameRulesMask, Taken
  <2>3. SlotUse'
    BY <1>6 DEF UpdateMasks, user, SlotUse, me, Connected
  <2> QED BY <1>0, <1>6, <2>1, <2>2, <2>3 DEF UpdateMasks, belief, user
<1>7. ASSUME Act PROVE inputs' \in 0..MaxInputs
  BY <1>0, <1>7 DEF Act
<1>8. /\ <<>> \in Seq(Message) /\ <<>> \in Seq({0, 1}) /\ <<>> \in Seq(SUBSET Slots)
      /\ Len(<<>>) <= MaxFlight
  BY EmptySeq
<1>9. ASSUME NEW c \in Clients, Connect(c) PROVE Srv' /\ Usr' /\ Cl' /\ ToC' /\ ToS' /\ Bans' /\ SlotUse'
  <2>1. SlotUse'
    BY <1>0, <1>9 DEF Connect, SlotUse, me, Connected
  <2> QED BY <1>0, <1>7, <1>9, <2>1 DEF Connect, ClientConnected, net
<1>10. CASE Disconnect \/ ChangeLevel \/ RestartServer
  <2>1. Act /\ toClient' = <<>> /\ toServer' = <<>> /\ vban' = <<>>
    BY <1>10 DEF Disconnect, ChangeLevel, RestartServer
  <2>2. ToC' /\ ToS' /\ Bans' /\ net' = <<<<>>, <<>>, <<>>>>
    BY <1>8, <2>1 DEF net
  <2>3. Usr' /\ me' \in {me, NoPlayer}
    BY <1>0, <1>7, <1>10, <2>1 DEF Disconnect, ChangeLevel, RestartServer, user, me
  <2>4. Srv' /\ Cl'
    <3>1. CASE Disconnect
      BY <1>0, <3>1 DEF Disconnect, server, belief
    <3>2. CASE ChangeLevel
      BY <1>0, <3>2 DEF ChangeLevel, ClientConnected, user
    <3>3. CASE RestartServer
      BY <1>0, <3>3 DEF RestartServer, belief
    <3> QED BY <1>10, <3>1, <3>2, <3>3
  <2> QED BY <2>2, <2>3, <2>4 DEF SlotUse
<1>11. CASE SetModEnable \/ SetAllTalk
  <2>1. SlotUse'
    BY <1>11 DEF SetModEnable, SetAllTalk, SlotUse, me, Connected, net
  <2>2. Usr'
    BY <1>0, <1>7, <1>11 DEF SetModEnable, SetAllTalk, SlotUse, Connected
  <2> QED BY <1>0, <1>11, <2>1, <2>2 DEF SetModEnable, SetAllTalk, server, belief, net
<1>12. ASSUME NEW s \in Slots, OtherLeaves(s) PROVE Srv' /\ Usr' /\ Cl' /\ ToC' /\ ToS' /\ Bans' /\ SlotUse'
  <2>1. me' = me
    BY <1>0, <1>12 DEF OtherLeaves, me
  <2>2. SlotUse'
    BY <1>12, <2>1 DEF OtherLeaves, SlotUse, Connected, net
  <2> QED BY <1>0, <1>7, <1>12, <2>2 DEF OtherLeaves, server, belief, net
<1>13. ASSUME NEW s \in Slots, NEW o \in Others, OtherConnects(o, s)
       PROVE  Srv' /\ Usr' /\ Cl' /\ ToC' /\ ToS' /\ Bans' /\ SlotUse'
  <2>1. me' = me
    BY <1>0, <1>13 DEF OtherConnects, me
  <2>2. SlotUse'
    BY <1>13, <2>1 DEF OtherConnects, SlotUse, Connected, net
  <2> QED BY <1>0, <1>7, <1>13, <2>2 DEF OtherConnects, server, belief, net
<1>14. ASSUME NEW s \in Slots, SetPlayerBlockedState(s)
       PROVE  Srv' /\ Usr' /\ Cl' /\ ToC' /\ ToS' /\ Bans' /\ SlotUse'
  <2> DEFINE bans == IF player[s] \in banned[me] THEN banned[me] \ {player[s]} ELSE banned[me] \cup {player[s]}
  <2>1. me \in Clients /\ Connected /\ UpdateServerState(FALSE, bans) /\ banned' = [banned EXCEPT ![me] = bans]
    BY <1>14 DEF SetPlayerBlockedState, SlotUse, Connected
  <2>2. bans \in SUBSET Others
    BY <1>0, <1>14, <2>1 DEF SetPlayerBlockedState
  <2> HIDE DEF bans
  <2>3. Cl' /\ ToS' /\ Bans' /\ late' \in BOOLEAN
    BY <1>0, <1>14, <2>1, UpdateTells DEF SetPlayerBlockedState
  <2>4. SlotUse'
    BY <1>14, <2>1 DEF SetPlayerBlockedState, SlotUse, me, Connected
  <2>5. Usr'
    BY <1>0, <1>7, <1>14, <2>1, <2>2 DEF SetPlayerBlockedState
  <2> QED BY <1>0, <1>14, <2>3, <2>4, <2>5 DEF SetPlayerBlockedState, server
<1>15. CASE UNCHANGED vars
  BY <1>0, <1>15 DEF vars, server, belief, user, net, SlotUse, me, Connected
<1> QED
  BY <1>1, <1>2, <1>3, <1>4, <1>5, <1>6, <1>9, <1>10, <1>11, <1>12, <1>13, <1>14, <1>15 DEF Next

-----------------------------------------------------------------------------
(* What the client believes of its wish for voice. *)

LEMMA TellingKeepsWish ==
  ASSUME TypeOK, SlotUse, WishKnown, Connected, NEW bForce \in BOOLEAN, NEW bans, UpdateServerState(bForce, bans),
         UNCHANGED <<g_PlayerModEnable, g_bWantModEnable, player>>
  PROVE  WishKnown'
<1>1. me \in Clients /\ me' = me /\ Connected'
  BY DEF SlotUse, Connected, me
<1>2. /\ m_bServerModEnable'[me] = ModEnable(me)
      /\ \/ toServer' = toServer /\ m_bServerModEnable' = m_bServerModEnable
         \/ toServer' = Append(toServer, ModEnable(me))
  BY <1>1, UpdateTells
<1>3. CASE toServer' = toServer /\ m_bServerModEnable' = m_bServerModEnable
  BY <1>1, <1>3 DEF WishKnown
<1>4. CASE toServer' = Append(toServer, ModEnable(me))
  <2>1. toServer \in Seq({0, 1}) /\ ModEnable(me) \in {0, 1}
    BY DEF TypeOK, ModEnable
  <2>2. toServer' # <<>> /\ toServer'[Len(toServer')] = ModEnable(me)
    BY <1>4, <2>1, AppendProperties
  <2> QED BY <1>1, <1>2, <2>2 DEF WishKnown
<1> QED BY <1>2, <1>3, <1>4

LEMMA WishStep == TypeOK /\ SlotUse /\ WishKnown /\ [Next]_vars => WishKnown'
<1> SUFFICES ASSUME TypeOK, SlotUse, WishKnown, [Next]_vars PROVE WishKnown'
  OBVIOUS
<1> USE VoiceAssumption
<1>0. toServer \in Seq({0, 1}) /\ m_bServerModEnable \in [Clients -> -1..1]
      /\ player \in [Slots -> Clients \cup Others \cup {NoPlayer}]
  BY DEF TypeOK
<1>1. CASE Frame
  BY <1>1, TellingKeepsWish DEF Frame, server, user
<1>2. CASE Receive
  <2>1. Connected
    BY <1>2 DEF Receive, SlotUse, net
  <2>2. CASE HandleReqStateMsg
    BY <1>2, <2>1, <2>2, TellingKeepsWish DEF Receive, HandleReqStateMsg, server, user
  <2>3. CASE HandleVoiceMaskMsg(Head(toClient))
    <3>1. me' = me /\ me \in Clients
      BY <1>2, <2>1 DEF Receive, user, me, SlotUse, Connected
    <3>2. m_bServerModEnable'[me'] = -1
      BY <1>0, <2>3, <3>1 DEF HandleVoiceMaskMsg
    <3> QED BY <3>2 DEF WishKnown
  <2> QED BY <1>2, <2>2, <2>3 DEF Receive
<1>3. CASE VModEnable
  <2>1. me' = me /\ (Connected' <=> Connected) /\ m_bServerModEnable' = m_bServerModEnable
    BY <1>3 DEF VModEnable, user, belief, me, Connected
  <2>2. toServer # <<>> /\ toServer' = Tail(toServer) /\ g_PlayerModEnable' = (Head(toServer) = 1)
    BY <1>3 DEF VModEnable
  <2>3. /\ Len(toServer) \in Nat /\ Len(toServer) > 0 /\ Head(toServer) = toServer[1]
        /\ Len(toServer') = Len(toServer) - 1
        /\ \A i \in 1 .. Len(toServer') : toServer'[i] = toServer[i + 1]
    BY <1>0, <2>2, HeadTailProperties
  <2>4. toServer' # <<>> => toServer'[Len(toServer')] = toServer[Len(toServer)]
    <3>1. toServer' # <<>> => Len(toServer') \in 1 .. Len(toServer')
      <4>1. toServer' \in Seq({0, 1})
        BY <1>0, <2>2, HeadTailProperties
      <4> QED BY <4>1, EmptySeq
    <3> QED BY <2>3, <3>1
  <2>5. toServer' = <<>> => Head(toServer) = toServer[Len(toServer)]
    <3>1. toServer' = <<>> => Len(toServer') = 0
      BY EmptySeq
    <3>2. toServer' = <<>> => Len(toServer) = 1
      BY <2>3, <3>1
    <3> QED BY <2>3, <3>2
  <2> QED BY <2>1, <2>2, <2>4, <2>5 DEF WishKnown
\* A new connection starts with nothing on its way and a server that asks.
<1>4. CASE ChangeLevel \/ \E c \in Clients : Connect(c)
  <2>1. g_bWantModEnable' /\ toServer' = <<>>
    BY <1>4 DEF ChangeLevel, Connect, ClientConnected, SlotUse, net
  <2> QED BY <2>1 DEF WishKnown
<1>5. CASE Disconnect \/ RestartServer
  <2>1. ~Connected'
    BY <1>0, <1>5 DEF Disconnect, RestartServer, Connected, me
  <2> QED BY <2>1 DEF WishKnown
<1>6. ASSUME NEW s \in Slots, SetPlayerBlockedState(s) PROVE WishKnown'
  <2> DEFINE bans == IF player[s] \in banned[me] THEN banned[me] \ {player[s]} ELSE banned[me] \cup {player[s]}
  <2>1. Connected /\ UpdateServerState(FALSE, bans)
    BY <1>6 DEF SetPlayerBlockedState
  <2> HIDE DEF bans
  <2> QED BY <1>6, <2>1, TellingKeepsWish DEF SetPlayerBlockedState, server
<1>7. ASSUME me' = me,
             UNCHANGED <<m_bServerModEnable, toServer, g_PlayerModEnable, g_bWantModEnable>>
      PROVE  WishKnown'
  BY <1>7 DEF WishKnown, Connected
<1>8. CASE ClockCatchesUp \/ VBan \/ LoseVBan \/ UpdateMasks \/ SetModEnable \/ SetAllTalk \/ UNCHANGED vars
  BY <1>7, <1>8 DEF ClockCatchesUp, VBan, LoseVBan, UpdateMasks, SetModEnable, SetAllTalk, vars, server, belief, user,
                    net, me
<1>9. ASSUME NEW s \in Slots, OtherLeaves(s) \/ \E o \in Others : OtherConnects(o, s) PROVE WishKnown'
  BY <1>0, <1>7, <1>9 DEF OtherLeaves, OtherConnects, server, belief, net, me
<1> QED BY <1>1, <1>2, <1>3, <1>4, <1>5, <1>6, <1>8, <1>9 DEF Next

-----------------------------------------------------------------------------
(* What the client believes of its bans. *)

LEMMA BansStep == TypeOK /\ SlotUse /\ BansKnown /\ [Next]_vars => BansKnown'
<1> SUFFICES ASSUME TypeOK, SlotUse, BansKnown, [Next]_vars PROVE BansKnown'
  OBVIOUS
<1> USE VoiceAssumption
<1>0. /\ toClient \in Seq(Message)
      /\ m_ServerBannedPlayers \in [Clients -> SUBSET Slots]
      /\ player \in [Slots -> Clients \cup Others \cup {NoPlayer}]
      /\ Len(toClient) \in Nat
  BY LenProperties DEF TypeOK, Message
<1>1. CASE Receive
  <2>1. /\ Connected /\ me \in Clients /\ me' = me
        /\ UNCHANGED <<g_SentGameRulesMask, g_SentBanMask>>
    <3>1. Connected
      BY <1>1 DEF Receive, SlotUse, net
    <3> QED BY <1>1, <3>1 DEF Receive, SlotUse, user, server, me, Connected
  <2>2. /\ toClient # <<>> /\ toClient' = Tail(toClient)
        /\ Len(toClient) > 0 /\ Head(toClient) = toClient[1]
        /\ Len(toClient') = Len(toClient) - 1
        /\ \A i \in 1 .. Len(toClient') : toClient'[i] = toClient[i + 1]
    BY <1>0, <1>1, HeadTailProperties DEF Receive
  <2>3. \A i \in 1 .. Len(toClient') : IsMask(i)' <=> IsMask(i + 1)
    BY <2>2 DEF IsMask
  <2> SUFFICES ASSUME g_SentGameRulesMask \cup g_SentBanMask # {}
               PROVE  /\ \A i \in 1 .. Len(toClient') :
                            IsMask(i)' /\ (\A j \in i + 1 .. Len(toClient') : ~IsMask(j)') =>
                              toClient'[i].bans = g_SentBanMask
                      /\ (\A i \in 1 .. Len(toClient') : ~IsMask(i)') => m_ServerBannedPlayers'[me] = g_SentBanMask
    BY <2>1 DEF BansKnown
  <2>4. ASSUME NEW i \in 1 .. Len(toClient'), IsMask(i)', \A j \in i + 1 .. Len(toClient') : ~IsMask(j)'
        PROVE  toClient'[i].bans = g_SentBanMask
    <3>1. i + 1 \in 1 .. Len(toClient) /\ IsMask(i + 1)
      BY <1>0, <2>2, <2>3, <2>4
    <3>2. ASSUME NEW j \in (i + 1) + 1 .. Len(toClient) PROVE ~IsMask(j)
      <4>1. j - 1 \in i + 1 .. Len(toClient') /\ (j - 1) + 1 = j /\ j - 1 \in 1 .. Len(toClient')
        BY <1>0, <2>2
      <4> QED BY <2>3, <2>4, <4>1
    <3>3. toClient[i + 1].bans = g_SentBanMask
      BY <2>1, <3>1, <3>2 DEF BansKnown
    <3> QED BY <2>2, <3>3
  <2>5. ASSUME \A i \in 1 .. Len(toClient') : ~IsMask(i)'
        PROVE  m_ServerBannedPlayers'[me] = g_SentBanMask
    <3>1. ASSUME NEW j \in 2 .. Len(toClient) PROVE ~IsMask(j)
      <4>1. j - 1 \in 1 .. Len(toClient') /\ (j - 1) + 1 = j
        BY <1>0, <2>2
      <4> QED BY <2>3, <2>5, <4>1
    <3>2. CASE HandleReqStateMsg /\ ~IsMask(1)
      <4>1. \A i \in 1 .. Len(toClient) : ~IsMask(i)
        BY <1>0, <3>1, <3>2
      <4>2. m_ServerBannedPlayers' = m_ServerBannedPlayers
        BY <3>2 DEF HandleReqStateMsg
      <4> QED BY <2>1, <4>1, <4>2 DEF BansKnown
    <3>3. CASE HandleVoiceMaskMsg(Head(toClient)) /\ IsMask(1)
      <4>1. 1 \in 1 .. Len(toClient) /\ \A j \in 1 + 1 .. Len(toClient) : ~IsMask(j)
        BY <1>0, <2>2, <3>1
      <4>2. toClient[1].bans = g_SentBanMask
        BY <2>1, <3>3, <4>1 DEF BansKnown
      <4>3. m_ServerBannedPlayers' = [m_ServerBannedPlayers EXCEPT ![me] = toClient[1].bans]
        BY <2>2, <3>3 DEF HandleVoiceMaskMsg
      <4> QED BY <1>0, <2>1, <4>2, <4>3
    <3> QED BY <1>1, <2>2, <3>2, <3>3 DEF Receive, IsMask
  <2> QED BY <2>4, <2>5
<1>2. CASE UpdateMasks
  <2>1. /\ me' = me /\ m_ServerBannedPlayers' = m_ServerBannedPlayers
        /\ toClient' = toClient \o News /\ Connected
        /\ g_SentGameRulesMask' = gameRulesMask /\ g_SentBanMask' = g_BanMask
    BY <1>2 DEF UpdateMasks, user, belief, me
  <2>2. News \in Seq(Message) /\ g_BanMask \in SUBSET Slots
    BY NewsTypes DEF TypeOK
  <2>3. ASSUME News \in {<<>>, <<ReqState>>}, gameRulesMask = g_SentGameRulesMask, g_BanMask = g_SentBanMask
        PROVE  BansKnown'
    <3>1. Len(toClient) <= Len(toClient') /\ Len(toClient') \in Nat
      BY <1>0, <2>1, <2>3
    <3>2. /\ \A i \in 1 .. Len(toClient) : toClient'[i] = toClient[i]
          /\ \A i \in 1 .. Len(toClient') : i \notin 1 .. Len(toClient) => toClient'[i] = ReqState
      BY <1>0, <2>1, <2>3
    <3>3. /\ \A i \in 1 .. Len(toClient) : IsMask(i)' <=> IsMask(i)
          /\ \A i \in 1 .. Len(toClient') : i \notin 1 .. Len(toClient) => ~IsMask(i)'
      BY <3>2, Messages DEF IsMask
    <3>4. ASSUME NEW i \in 1 .. Len(toClient'), IsMask(i)', \A j \in i + 1 .. Len(toClient') : ~IsMask(j)',
                 g_SentGameRulesMask \cup g_SentBanMask # {}
          PROVE  toClient'[i].bans = g_SentBanMask
      <4>1. i \in 1 .. Len(toClient) /\ IsMask(i)
        BY <3>3, <3>4
      <4>2. \A j \in i + 1 .. Len(toClient) : ~IsMask(j)
        BY <1>0, <3>1, <3>3, <3>4
      <4> QED BY <2>1, <3>2, <3>4, <4>1, <4>2 DEF BansKnown
    <3>5. ASSUME \A i \in 1 .. Len(toClient') : ~IsMask(i)', g_SentGameRulesMask \cup g_SentBanMask # {}
          PROVE  m_ServerBannedPlayers[me] = g_SentBanMask
      <4>1. \A i \in 1 .. Len(toClient) : ~IsMask(i)
        BY <1>0, <3>1, <3>3, <3>5
      <4> QED BY <2>1, <3>5, <4>1 DEF BansKnown
    <3> QED BY <2>1, <2>3, <3>4, <3>5 DEF BansKnown
  <2>4. ASSUME News \in {<<VoiceMask(g_BanMask)>>, <<ReqState, VoiceMask(g_BanMask)>>}
        PROVE  BansKnown'
    <3>1. PICK n \in Nat \ {0} : Len(toClient') = n /\ toClient'[n] = VoiceMask(g_BanMask)
      <4> DEFINE n == Len(toClient) + Len(News)
      <4>1. Len(News) \in 1 .. 2 /\ News[Len(News)] = VoiceMask(g_BanMask)
        BY <2>4
      <4>2. Len(toClient') = n /\ toClient'[n] = News[Len(News)] /\ n \in Nat \ {0}
        BY <1>0, <2>1, <2>2, <4>1, ConcatProperties
      <4> QED BY <4>1, <4>2
    <3>2. IsMask(n)' /\ toClient'[n].bans = g_BanMask /\ n \in 1 .. Len(toClient')
      BY <2>2, <3>1, Messages DEF IsMask
    <3>3. ASSUME NEW i \in 1 .. Len(toClient'), \A j \in i + 1 .. Len(toClient') : ~IsMask(j)'
          PROVE  i = n
      BY <3>1, <3>2, <3>3
    <3> QED BY <2>1, <3>2, <3>3 DEF BansKnown
  <2> QED BY <2>3, <2>4, NewsTypes
<1>3. CASE ChangeLevel \/ RestartServer \/ \E c \in Clients : Connect(c)
  <2>1. g_SentGameRulesMask' = {} /\ g_SentBanMask' = {}
    BY <1>3 DEF ChangeLevel, RestartServer, Connect, ClientConnected
  <2> QED BY <2>1 DEF BansKnown
<1>4. CASE Disconnect
  <2>1. ~Connected'
    BY <1>0, <1>4 DEF Disconnect, Connected, me
  <2> QED BY <2>1 DEF BansKnown
<1>5. ASSUME me' = me, UNCHANGED <<toClient, m_ServerBannedPlayers, g_SentGameRulesMask, g_SentBanMask>>
      PROVE  BansKnown'
  BY <1>5 DEF BansKnown, Connected, IsMask
<1>6. CASE Frame \/ ClockCatchesUp \/ VModEnable \/ VBan \/ LoseVBan \/ SetModEnable \/ SetAllTalk \/ UNCHANGED vars
  BY <1>5, <1>6 DEF Frame, ClockCatchesUp, VModEnable, VBan, LoseVBan, SetModEnable, SetAllTalk, vars, server, belief,
                    user, net, me
<1>7. ASSUME NEW s \in Slots, OtherLeaves(s) \/ \E o \in Others : OtherConnects(o, s) PROVE BansKnown'
  BY <1>0, <1>5, <1>7 DEF OtherLeaves, OtherConnects, server, belief, net, me
<1>8. ASSUME NEW s \in Slots, SetPlayerBlockedState(s) PROVE BansKnown'
  BY <1>5, <1>8 DEF SetPlayerBlockedState, server, me
<1> QED BY <1>1, <1>2, <1>3, <1>4, <1>6, <1>7, <1>8 DEF Next

-----------------------------------------------------------------------------
LEMMA InitEstablishes == Init => VInv
<1> SUFFICES ASSUME Init PROVE VInv
  OBVIOUS
<1>1. /\ <<>> \in Seq(Message) /\ <<>> \in Seq({0, 1}) /\ <<>> \in Seq(SUBSET Slots)
      /\ Len(<<>>) <= MaxFlight
  BY EmptySeq, BoundsAssumption
<1>2. TypeOK
  <2>1. /\ player \in [Slots -> Clients \cup Others \cup {NoPlayer}]
        /\ banned \in [Clients -> SUBSET Others]
        /\ m_bServerModEnable \in [Clients -> -1..1]
        /\ m_ServerBannedPlayers \in [Clients -> SUBSET Slots]
    BY DEF Init
  <2>2. {sv_alltalk, g_PlayerModEnable, g_bWantModEnable, late} \subseteq BOOLEAN
    BY DEF Init
  <2>3. /\ {g_BanMask, g_SentGameRulesMask, g_SentBanMask, listening} \subseteq SUBSET Slots
        /\ voice_modenable \subseteq Clients /\ inputs \in 0..MaxInputs
    BY BoundsAssumption DEF Init
  <2>4. toClient = <<>> /\ toServer = <<>> /\ vban = <<>>
    BY DEF Init
  <2> QED BY <1>1, <2>1, <2>2, <2>3, <2>4 DEF TypeOK, Message
<1>3. me = NoPlayer /\ net = <<<<>>, <<>>, <<>>>>
  BY VoiceAssumption DEF Init, me, net
<1> QED BY <1>2, <1>3 DEF VInv, SlotUse, WishKnown, BansKnown, Connected

\* The inductive invariant of CVoiceStatus, CVoiceGameMgr and the messages between them.
THEOREM Invariance == Spec => []VInv
<1>1. VInv /\ [Next]_vars => VInv'
  BY TypeStep, WishStep, BansStep DEF VInv
<1> QED BY <1>1, InitEstablishes, PTL DEF Spec

\* The masks, the client's picture of them and the messages always have the types the module declares, and the bounds
\* on the messages and inputs are kept.
THEOREM TypeCorrect == Spec => []TypeOK
BY Invariance, PTL DEF VInv

\* When CVoiceStatus and CVoiceGameMgr have nothing more to tell each other, the player hears those that the rules let
\* him hear and that he has not muted, or nobody if he wants no voice.
THEOREM SettledIsRight == Spec => []SettledMeansRight
<1>1. VInv => SettledMeansRight
  <2> SUFFICES ASSUME VInv, Connected, Settled
               PROVE  listening = {o \in Taken : /\ me \in voice_modenable /\ CanPlayerHearPlayer(me, player[o])
                                                 /\ player[o] \notin banned[me]}
    BY DEF SettledMeansRight
  <2>1. /\ ~g_bWantModEnable /\ gameRulesMask = g_SentGameRulesMask /\ g_BanMask = g_SentBanMask
        /\ toClient = <<>> /\ toServer = <<>>
        /\ listening = gameRulesMask \ g_BanMask
    BY NewsTypes DEF VInv, Settled, net
  <2>2. /\ m_bServerModEnable[me] = ModEnable(me) /\ ModEnable(me) \in {0, 1}
        /\ ModEnable(me) = 1 <=> me \in voice_modenable
    BY DEF Settled, ModEnable
  <2>3. g_PlayerModEnable <=> me \in voice_modenable
    BY <2>1, <2>2 DEF VInv, WishKnown
  <2>4. CASE me \notin voice_modenable
    <3>1. gameRulesMask = {}
      BY <2>3, <2>4 DEF gameRulesMask
    <3> QED BY <2>1, <2>4, <3>1
  <2>5. CASE me \in voice_modenable
    <3>1. Mine \in gameRulesMask
      BY <2>3, <2>5, VoiceAssumption DEF gameRulesMask, Taken, Connected, me, CanPlayerHearPlayer
    <3>2. m_ServerBannedPlayers[me] = g_BanMask
      <4>1. 1 .. Len(toClient) = {}
        BY <2>1
      <4> QED BY <2>1, <3>1, <4>1 DEF VInv, BansKnown
    <3>3. g_BanMask \cap Taken = {s \in Taken : player[s] \in banned[me]}
      BY <3>2 DEF Settled, serverBanMask, banMask
    <3>4. gameRulesMask = {o \in Taken : CanPlayerHearPlayer(me, player[o])}
      BY <2>3, <2>5 DEF gameRulesMask
    <3> QED BY <2>1, <2>5, <3>3, <3>4
  <2> QED BY <2>4, <2>5
<1> QED BY <1>1, Invariance, PTL
=============================================================================
