-------------------------------- MODULE ChatSync --------------------------------
(***************************************************************************)
(* The text channels of one web or desktop client (packages/client,        *)
(* features/chat): chat-store.ts, the effects of ChatShell.tsx that load   *)
(* messages and switch the gateway's subscription, the API's channel       *)
(* routes and the fanout of app-runtime.ts.                                *)
(*                                                                         *)
(* Every request reads the database some time before its answer arrives,   *)
(* and nothing ties an answer to what the client shows by then.  Messages  *)
(* are numbered within their channel; what they say, the loading flags and *)
(* the errors shown are left out.                                          *)
(***************************************************************************)
EXTENDS Naturals, Sequences, FiniteSets, SequencesExt

CONSTANTS
  Guild, Home,      \* Home: the first of the guilds the API lists
  None,
  ChannelOf,        \* [Guild -> sequence of its text channels, in their order]
  Limit,            \* messages of a page
  Old,              \* messages each channel starts with
  MaxMessages,      \* bound: messages of a channel
  Busy,             \* bound: the channels where anything is said
  MaxLoads,         \* bound: pages asked for at once
  MaxClicks,        \* bound: the user's clicks
  MaxFaults         \* bound: failures

VARIABLES chat, loads, server, clicks, faults

TextChannel == UNION {Range(ChannelOf[g]) : g \in Guild}
Number == 1 .. MaxMessages
Message == TextChannel \X Number

ChatRec == [guild: Guild \cup {None}, active: TextChannel \cup {None},
            known: SUBSET TextChannel,                  \* messagesByChannel has it
            shown: [TextChannel -> Seq(Number)],
            paged: SUBSET TextChannel,                  \* cursorByChannel and hasMoreByChannel have it
            cursor: [TextChannel -> {0} \cup Number],   \* 0: null, no more pages
            older: BOOLEAN,                         \* isLoadingOlder
            missed: SUBSET Message,                 \* published past the client, or overwritten by a page, or forgotten
            unread: SUBSET TextChannel,                 \* a page could not be loaded, or a message came before any
            crossed: SUBSET (TextChannel \cup {None})]  \* an older page met another list; None: a channel
                                                    \* list met another guild

Load == [n: 1 .. MaxLoads, ch: TextChannel, before: {0} \cup Number,
         read: BOOLEAN, items: Seq(Number), next: {0} \cup Number]

ServerRec == [count: [TextChannel -> Old .. MaxMessages],
              bus: SUBSET Message,                  \* stored, not yet published
              own: SUBSET Message,                  \* the user's, not yet answered
              up: BOOLEAN, subs: SUBSET TextChannel,    \* the connection's subscriptions
              asked: SUBSET TextChannel,                \* those being looked up
              listing: BOOLEAN, lists: SUBSET Guild]  \* guilds and channels asked for

TypeOK ==
  /\ chat \in ChatRec /\ server \in ServerRec
  /\ \A l \in loads : l \in Load
  /\ clicks \in 0 .. MaxClicks /\ faults \in 0 .. MaxFaults

Blank == [guild |-> None, active |-> None, known |-> {}, shown |-> [c \in TextChannel |-> <<>>],
          paged |-> {}, cursor |-> [c \in TextChannel |-> 0], older |-> FALSE, missed |-> {},
          unread |-> {}, crossed |-> {}]

Init ==
  /\ chat = Blank /\ loads = {} /\ clicks = 0 /\ faults = 0
  /\ server = [count |-> [c \in TextChannel |-> Old], bus |-> {}, own |-> {}, up |-> TRUE,
               subs |-> {}, asked |-> {}, listing |-> TRUE, lists |-> {}]

Click == clicks < MaxClicks /\ clicks' = clicks + 1 /\ UNCHANGED faults
Fault == faults < MaxFaults /\ faults' = faults + 1 /\ UNCHANGED clicks
Quietly == UNCHANGED <<clicks, faults>>

-----------------------------------------------------------------------------
(* The effects of ChatShell.                                               *)

Asking(c, before) ==
  {[n |-> CHOOSE n \in 1 .. MaxLoads : \A l \in loads : l.n # n,
    ch |-> c, before |-> before, read |-> FALSE, items |-> <<>>, next |-> 0]}
RoomToLoad == Cardinality(loads) < MaxLoads

\* The messages of the active channel are loaded when it or any list of messages has changed
\* and there are none; rest: the loads under way besides.
LoadMissing(s, rest) ==
  IF s.active # None /\ s.active \notin s.known
  THEN RoomToLoad /\ loads' = rest \cup Asking(s.active, 0)
  ELSE loads' = rest

\* syncGatewayChannelSubscription, switchChannel; a socket that is down loses both commands.
Switched(s, srv) ==
  IF s.active = chat.active \/ ~srv.up THEN srv
  ELSE [srv EXCEPT !.subs = @ \ {chat.active},
                   !.asked = IF s.active = None THEN @ ELSE @ \cup {s.active}]

Selected(s, srv) ==
  /\ chat' = s
  /\ server' = Switched(s, srv)
  /\ IF s.active = chat.active THEN UNCHANGED loads ELSE LoadMissing(s, loads)

-----------------------------------------------------------------------------
(* Guilds and channels.                                                    *)

\* setActiveGuild, and the effect that loads its channels.
SetActiveGuild(g) ==
  /\ Click
  /\ g # chat.guild
  /\ Selected([chat EXCEPT !.guild = g, !.active = None],
              [server EXCEPT !.lists = @ \cup {g}])

SetActiveChannel(c) ==
  /\ Click
  /\ chat.guild # None /\ c \in Range(ChannelOf[chat.guild]) \ {chat.active}
  /\ Selected([chat EXCEPT !.active = c], server)

GuildsLoaded ==
  /\ server.listing
  /\ IF chat.guild = None
     THEN /\ chat' = [chat EXCEPT !.guild = Home]
          /\ server' = [server EXCEPT !.listing = FALSE, !.lists = @ \cup {Home}]
     ELSE UNCHANGED chat /\ server' = [server EXCEPT !.listing = FALSE]
  /\ UNCHANGED loads /\ Quietly

\* resolveActiveTextChannelId.
Resolve(g, c) == IF c \in Range(ChannelOf[g]) THEN c ELSE Head(ChannelOf[g])

\* The channels of the guild asked for, whichever is active now.
ChannelsLoaded(g) ==
  /\ g \in server.lists
  /\ Selected([chat EXCEPT !.active = Resolve(g, @),
                           !.crossed = IF g = chat.guild THEN @ ELSE @ \cup {None}],
              [server EXCEPT !.lists = @ \ {g}])
  /\ Quietly

-----------------------------------------------------------------------------
(* Pages of messages.                                                      *)

LoadOlderMessages ==
  /\ Click
  /\ chat.active \in chat.paged /\ ~chat.older /\ chat.cursor[chat.active] # 0
  /\ RoomToLoad /\ loads' = loads \cup Asking(chat.active, chat.cursor[chat.active])
  /\ chat' = [chat EXCEPT !.older = TRUE]
  /\ UNCHANGED server

\* listByChannel: newest first, as many as Limit; the cursor is there when there are more.
PageRead(l) ==
  /\ ~l.read
  /\ LET last == IF l.before = 0 THEN server.count[l.ch] ELSE l.before - 1
         first == IF last > Limit THEN last - Limit + 1 ELSE 1
     IN loads' = (loads \ {l}) \cup
                 {[l EXCEPT !.read = TRUE, !.items = [i \in 1 .. last - first + 1 |-> first + i - 1],
                            !.next = IF first > 1 THEN first ELSE 0]}
  /\ UNCHANGED <<chat, server>> /\ Quietly

\* The newest page replaces what is shown of the channel.
MessagesLoaded(l) ==
  /\ l.read /\ l.before = 0
  /\ LET gone == {m \in Range(chat.shown[l.ch]) \ Range(l.items) :
                    l.items = <<>> \/ m > Head(l.items)}
         s == [chat EXCEPT !.known = @ \cup {l.ch}, !.shown[l.ch] = l.items,
                           !.paged = @ \cup {l.ch}, !.cursor[l.ch] = l.next,
                           !.crossed = @ \ {l.ch},
                           !.missed = @ \cup ({l.ch} \X gone)]
     IN chat' = s /\ LoadMissing(s, loads \ {l})
  /\ UNCHANGED server /\ Quietly

\* A mutant of OlderLoaded: the cursor stays where it was.
OlderLoadedCursorKept(l) ==
  /\ l.read /\ l.before # 0
  /\ LET s == [chat EXCEPT !.known = @ \cup {l.ch}, !.shown[l.ch] = l.items \o @,
                           !.paged = @ \cup {l.ch}, !.older = FALSE,
                           !.crossed = IF chat.shown[l.ch] # <<>> /\ Head(chat.shown[l.ch]) = l.before
                                       THEN @ ELSE @ \cup {l.ch}]
     IN chat' = s /\ LoadMissing(s, loads \ {l})
  /\ UNCHANGED server /\ Quietly

\* An older page goes before what is shown by now.
OlderLoaded(l) ==
  /\ l.read /\ l.before # 0
  /\ LET s == [chat EXCEPT !.known = @ \cup {l.ch}, !.shown[l.ch] = l.items \o @,
                           !.paged = @ \cup {l.ch}, !.cursor[l.ch] = l.next, !.older = FALSE,
                           !.crossed = IF chat.shown[l.ch] # <<>> /\ Head(chat.shown[l.ch]) = l.before
                                       THEN @ ELSE @ \cup {l.ch}]
     IN chat' = s /\ LoadMissing(s, loads \ {l})
  /\ UNCHANGED server /\ Quietly

\* Nothing asks again before the channel is chosen anew or another list changes.
LoadFailed(l) ==
  /\ Fault
  /\ chat' = IF l.before = 0 THEN [chat EXCEPT !.unread = @ \cup {l.ch}]
             ELSE [chat EXCEPT !.older = FALSE]
  /\ loads' = loads \ {l}
  /\ UNCHANGED server

-----------------------------------------------------------------------------
(* Messages.                                                               *)

Stored(c) == [server EXCEPT !.count[c] = @ + 1, !.bus = @ \cup {<<c, server.count[c] + 1>>}]

\* Someone else's message.
Said(c) ==
  /\ c \in Busy
  /\ server.count[c] < MaxMessages
  /\ server' = Stored(c)
  /\ UNCHANGED <<chat, loads>> /\ Quietly

\* sendMessage: stored, then answered.
SendMessage ==
  /\ Click
  /\ chat.active \in Busy /\ server.count[chat.active] < MaxMessages
  /\ LET c == chat.active
     IN server' = [Stored(c) EXCEPT !.own = @ \cup {<<c, server.count[c] + 1>>}]
  /\ UNCHANGED <<chat, loads>>

\* appendRealtimeMessage: at the end, unless it is there.
Append1(m) ==
  LET c == m[1]
      s == [chat EXCEPT !.known = @ \cup {c}, !.shown[c] = Append(@, m[2]),
                        !.unread = IF c \in chat.known THEN @ ELSE @ \cup {c}]
  IN IF m[2] \in Range(chat.shown[c]) THEN UNCHANGED <<chat, loads>>
     ELSE chat' = s /\ LoadMissing(s, loads)

MessageSent(m) ==
  /\ m \in server.own
  /\ server' = [server EXCEPT !.own = @ \ {m}]
  /\ Append1(m)
  /\ Quietly

\* publishMessageCreated and the gateway's pmessage: to those subscribed by then.  The way to
\* the client is part of the wait before.
Published(m) ==
  /\ m \in server.bus
  /\ server' = [server EXCEPT !.bus = @ \ {m}]
  /\ IF server.up /\ m[1] \in server.subs THEN Append1(m)
     ELSE chat' = [chat EXCEPT !.missed = @ \cup {m}] /\ UNCHANGED loads
  /\ Quietly

\* Redis refuses it; the request succeeds all the same.
PublishFailed(m) ==
  /\ m \in server.bus /\ Fault
  /\ server' = [server EXCEPT !.bus = @ \ {m}]
  /\ chat' = [chat EXCEPT !.missed = @ \cup {m}]
  /\ UNCHANGED loads

\* handleChannelSubscribe, once the channel and the membership are found.
Subscribed(c) ==
  /\ c \in server.asked
  /\ server' = [server EXCEPT !.asked = @ \ {c}, !.subs = @ \cup {c}]
  /\ UNCHANGED <<chat, loads>> /\ Quietly

-----------------------------------------------------------------------------
(* The connection and the session.                                         *)

Drop ==
  /\ server.up /\ Fault
  /\ server' = [server EXCEPT !.up = FALSE, !.subs = {}, !.asked = {}]
  /\ UNCHANGED <<chat, loads>>

\* The active channel is subscribed to again; what was said meanwhile is not asked for.
Ready ==
  /\ ~server.up
  /\ server' = [server EXCEPT !.up = TRUE, !.asked = {chat.active} \ {None}]
  /\ UNCHANGED <<chat, loads>> /\ Quietly

\* logout: reset, and the shell is mounted anew; requests under way are answered still.
Reset ==
  /\ Click
  /\ chat' = [Blank EXCEPT !.missed = chat.missed \cup
                                        {m \in Message : m[2] \in Range(chat.shown[m[1]])}]
  /\ server' = [server EXCEPT !.up = FALSE, !.subs = {}, !.asked = {}, !.listing = TRUE]
  /\ UNCHANGED loads

Next ==
  \/ \E g \in Guild : SetActiveGuild(g) \/ ChannelsLoaded(g)
  \/ \E c \in TextChannel : SetActiveChannel(c) \/ Said(c) \/ Subscribed(c)
  \/ \E l \in loads : PageRead(l) \/ MessagesLoaded(l) \/ OlderLoaded(l) \/ LoadFailed(l)
  \/ \E m \in Message : MessageSent(m) \/ Published(m) \/ PublishFailed(m)
  \/ GuildsLoaded \/ LoadOlderMessages \/ SendMessage \/ Drop \/ Ready \/ Reset

-----------------------------------------------------------------------------
Settled == loads = {} /\ server.bus = {} /\ server.own = {}
           /\ server.asked = {} /\ server.lists = {} /\ ~server.listing

\* What the user reads once nothing is under way: a channel of the guild shown, unless another
\* guild's list came late; its messages, each once and without a hole up to the newest, but for
\* those that passed the client by; "beginning of the channel" only at the beginning; and its
\* new messages will come.
ChatSettles ==
  Settled =>
    /\ chat.active # None /\ None \notin chat.crossed =>
         chat.active \in Range(ChannelOf[chat.guild])
    /\ chat.active # None /\ server.up => chat.active \in server.subs
    /\ chat.active # None => chat.active \in chat.paged \cup chat.unread
    /\ \A c \in chat.paged \ chat.crossed :
         LET seen == Range(chat.shown[c])
             from == IF chat.cursor[c] = 0 THEN 1 ELSE chat.cursor[c]
         IN /\ Cardinality(seen) = Len(chat.shown[c])
            /\ \A m \in from .. server.count[c] : m \in seen \/ <<c, m>> \in chat.missed
            /\ \A m \in seen : m >= from
=============================================================================
