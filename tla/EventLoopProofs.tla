---------------------------- MODULE EventLoopProofs ----------------------------
(***************************************************************************)
(* The event loop over each of its backends, for any descriptors, any size *)
(* of the changelist and any client: what the slots ask for reaches the    *)
(* kernel, and no change is lost in the list that takes it there.          *)
(***************************************************************************)
EXTENDS EventLoop, TLAPS

\* Nobody asks kqueue for both events at once, as canvasback.c, which reads only,
\* and picoev_echo.c do not.
OneEventOnKqueue == "kqueue" \notin ReadWriteOn

\* No events, or one.
Single(E) == E \in {{}, {"READ"}, {"WRITE"}}

Told(list, fd, op, f) == \E i \in DOMAIN list : list[i] = Change(fd, op, f)

\* The changelist says of the descriptor what the kernel does not know yet.
Sent(fd) ==
  \A f \in Events :
    /\ Told(changelist, fd, "disable", f) <=> f \in watch[fd] \ events[fd]
    /\ Told(changelist, fd, "enable", f) <=> f \in events[fd] \ watch[fd]

\* Only apply_pending_changes fills the changelist.  Only picoev_del leaves a
\* descriptor that is open and no longer in the loop of kqueue.
Phases ==
  /\ phase = "apply" => backend = "kqueue"
  /\ phase # "apply" => changelist = <<>> /\ deleting = None
  /\ deleting # None => deleting \in open \ active
  /\ backend # "kqueue" => Changed = {}
  /\ backend = "kqueue" => open \subseteq active \cup {deleting}

\* What a slot of epoll asks for is in the kernel at once.
EpollSound ==
  backend = "epoll" =>
    \A fd \in active : events[fd] # {} => watch[fd] = events[fd]

\* The three places of a descriptor of kqueue: its change waits in the list, in the
\* changelist, or nowhere.
KqueueFd(fd) ==
  /\ Single(events[fd]) /\ Single(watch[fd]) /\ watch[fd] \subseteq knotes[fd]
  /\ fd \notin open => watch[fd] = {} /\ fd \notin Changed
  /\ fd \in Changed => watch[fd] = _backend[fd].old
  /\ fd \in open \ Changed => Sent(fd)

\* The entries of the changelist are of open descriptors that left the list, and
\* there is room for two more.
RoomLeft ==
  /\ \A i \in DOMAIN changelist : changelist[i].fd \in open \ Changed
  /\ changelist = <<>> \/ ~ Full(Len(changelist))

KqueueSound == backend = "kqueue" => RoomLeft /\ \A fd \in FD : KqueueFd(fd)

\* What the loop has yet to report was asked for, unless the slot has changed since.
BatchAsked ==
  \A fd \in active \ touched :
    (backend = "epoll" => events[fd] # {}) => batch[fd] \subseteq events[fd]

LoopInv ==
  TypeOK /\ Running /\ Phases /\ Listed /\ EpollSound /\ KqueueSound /\ BatchAsked

-----------------------------------------------------------------------------
(* kevent() and the entries it is given. *)

\* The last of the entries says what is watched, so that no disable undoes an enable.
LEMMA KeventWatches ==
  ASSUME NEW list \in Seq(Changes), NEW fd \in FD, NEW E \in SUBSET Events,
         watch \in [FD -> SUBSET Events],
         \A f \in Events : /\ Told(list, fd, "disable", f) <=> f \in watch[fd] \ E
                           /\ Told(list, fd, "enable", f) <=> f \in E \ watch[fd]
  PROVE  Kevent(list).watch[fd] = E
<1>1. Kevent(list).watch[fd] =
        {f \in Events :
           \/ f \in watch[fd] /\ ~ Told(list, fd, "disable", f)
           \/ \E i \in DOMAIN list :
                /\ list[i] = Change(fd, "enable", f)
                /\ \A j \in DOMAIN list : j > i => list[j] # Change(fd, "disable", f)}
  BY DEF Kevent, Told
<1>2. ASSUME NEW f \in Events
      PROVE  f \in Kevent(list).watch[fd] <=> f \in E
  <2>1. CASE f \in E
    <3>1. ~ Told(list, fd, "disable", f) /\ (f \in watch[fd] \/ Told(list, fd, "enable", f))
      BY <2>1
    <3>2. \A j \in DOMAIN list : list[j] # Change(fd, "disable", f)
      BY <3>1 DEF Told
    <3>3. f \in watch[fd] \/ \E i \in DOMAIN list : list[i] = Change(fd, "enable", f)
      BY <3>1 DEF Told
    <3> QED
      BY <1>1, <3>1, <3>2, <3>3
  <2>2. CASE f \notin E
    <3>1. ~ Told(list, fd, "enable", f) /\ (f \in watch[fd] => Told(list, fd, "disable", f))
      BY <2>2
    <3>2. \A i \in DOMAIN list : list[i] # Change(fd, "enable", f)
      BY <3>1 DEF Told
    <3> QED
      BY <1>1, <2>2, <3>1, <3>2
  <2> QED
    BY <2>1, <2>2
<1> QED
  BY <1>1, <1>2

\* A descriptor without entries is left alone.
LEMMA KeventSpares ==
  ASSUME NEW list \in Seq(Changes), NEW fd \in FD, watch \in [FD -> SUBSET Events],
         \A i \in DOMAIN list : list[i].fd # fd
  PROVE  Kevent(list).watch[fd] = watch[fd]
<1>1. ASSUME NEW op, NEW f
      PROVE  ~ Told(list, fd, op, f)
  BY DEF Told, Change
<1> QED
  BY <1>1, KeventWatches

\* The kernel has a knote for what it watches.
LEMMA KeventKnotes ==
  ASSUME NEW list \in Seq(Changes), NEW fd \in FD, watch[fd] \subseteq knotes[fd]
  PROVE  Kevent(list).watch[fd] \subseteq Kevent(list).knotes[fd]
<1>1. Kevent(list).knotes[fd] = Knotes(list, fd, Len(list) + 1)
  BY DEF Kevent
<1>2. Len(list) \in Nat /\ DOMAIN list = 1..Len(list)
  OBVIOUS
<1>3. 1..((Len(list) + 1) - 1) = DOMAIN list
  BY <1>2
<1>4. Kevent(list).knotes[fd] =
        knotes[fd] \cup {f \in Events : \E i \in DOMAIN list : list[i] = Change(fd, "enable", f)}
  BY <1>1, <1>3 DEF Knotes
<1>5. ASSUME NEW f \in Kevent(list).watch[fd]
      PROVE  /\ f \in Events
             /\ f \in watch[fd] \/ \E i \in DOMAIN list : list[i] = Change(fd, "enable", f)
  BY <1>5 DEF Kevent
<1> QED
  BY <1>4, <1>5

LEMMA KeventType ==
  ASSUME NEW list \in Seq(Changes), knotes \in [FD -> SUBSET Events]
  PROVE  /\ Kevent(list).watch \in [FD -> SUBSET Events]
         /\ Kevent(list).knotes \in [FD -> SUBSET Events]
BY DEF Kevent, Knotes

\* Entries that disable what is watched, on open descriptors, are no errors.
LEMMA KeventOk ==
  ASSUME NEW list \in Seq(Changes),
         \A i \in DOMAIN list : list[i].fd \in open,
         \A i \in DOMAIN list : \A fd \in FD, f \in Events :
           list[i] = Change(fd, "disable", f) => f \in knotes[fd]
  PROVE  Kevent(list).ok
<1>1. ASSUME NEW i \in DOMAIN list, list[i].op = "disable"
      PROVE  list[i].filter \in knotes[list[i].fd]
  <2>1. list[i] \in Changes
    OBVIOUS
  <2>2. list[i] = Change(list[i].fd, "disable", list[i].filter)
    BY <1>1, <2>1 DEF Change, Changes
  <2> QED
    BY <2>1, <2>2 DEF Changes
<1> QED
  BY <1>1 DEF Kevent, Knotes

\* SET of a filter tells exactly the change of a single event.
LEMMA EntriesTell ==
  ASSUME NEW fd \in FD, NEW old, NEW new, Single(old), Single(new)
  PROVE  /\ Entries(fd, old, new) \in Seq(Changes)
         /\ Len(Entries(fd, old, new)) <= 2
         /\ \A i \in DOMAIN Entries(fd, old, new) : Entries(fd, old, new)[i].fd = fd
         /\ \A f \in Events :
              /\ Told(Entries(fd, old, new), fd, "disable", f) <=> f \in old \ new
              /\ Told(Entries(fd, old, new), fd, "enable", f) <=> f \in new \ old
<1> DEFINE list == Entries(fd, old, new)
           off == Change(fd, "disable", Filter(old))
           on == Change(fd, "enable", Filter(new))
<1>1. Filter(old) \in Events /\ Filter(new) \in Events
  BY DEF Filter, Events
<1>2. off \in Changes /\ on \in Changes
  BY <1>1 DEF Change, Changes
<1>3. old # {} => old = {Filter(old)}
  BY DEF Single, Filter
<1>4. new # {} => new = {Filter(new)}
  BY DEF Single, Filter
<1>5. \A f \in Events : Change(fd, "disable", f) # on /\ Change(fd, "enable", f) # off
  BY DEF Change
<1>6. \A f \in Events : /\ Change(fd, "disable", f) = off <=> f = Filter(old)
                        /\ Change(fd, "enable", f) = on <=> f = Filter(new)
  BY DEF Change
<1>7. off.fd = fd /\ on.fd = fd
  BY DEF Change
<1>8. CASE new = old
  <2>1. list = <<>>
    BY <1>8 DEF Entries
  <2> QED
    BY <1>8, <2>1 DEF Told
<1>9. CASE new # old /\ old = {}
  <2>1. list = <<on>> /\ new # {}
    BY <1>9 DEF Entries
  <2>2. list \in Seq(Changes) /\ Len(list) = 1 /\ DOMAIN list = {1} /\ list[1] = on
    BY <2>1, <1>2
  <2> HIDE DEF list, on
  <2>3. \A f \in Events : ~ Told(list, fd, "disable", f)
    BY <2>2, <1>5 DEF Told
  <2>4. \A f \in Events : Told(list, fd, "enable", f) <=> f = Filter(new)
    BY <2>2, <1>6 DEF Told
  <2>5. \A f \in Events : f \notin old \ new /\ (f \in new \ old <=> f = Filter(new))
    BY <1>9, <2>1, <1>4
  <2> QED
    BY <2>2, <2>3, <2>4, <2>5, <1>7 DEF list
<1>10. CASE new # old /\ new = {}
  <2>1. list = <<off>> /\ old # {}
    BY <1>10 DEF Entries
  <2>2. list \in Seq(Changes) /\ Len(list) = 1 /\ DOMAIN list = {1} /\ list[1] = off
    BY <2>1, <1>2
  <2> HIDE DEF list, off
  <2>3. \A f \in Events : ~ Told(list, fd, "enable", f)
    BY <2>2, <1>5 DEF Told
  <2>4. \A f \in Events : Told(list, fd, "disable", f) <=> f = Filter(old)
    BY <2>2, <1>6 DEF Told
  <2>5. \A f \in Events : f \notin new \ old /\ (f \in old \ new <=> f = Filter(old))
    BY <1>10, <2>1, <1>3
  <2> QED
    BY <2>2, <2>3, <2>4, <2>5, <1>7 DEF list
<1>11. CASE new # old /\ old # {} /\ new # {}
  <2>1. list = <<off, on>>
    <3>1. list = <<off>> \o <<on>>
      BY <1>11 DEF Entries
    <3>2. <<off>> \in Seq(Changes) /\ <<on>> \in Seq(Changes)
      BY <1>2
    <3>3. /\ list \in Seq(Changes) /\ Len(list) = 2
          /\ list[1] = off /\ list[2] = on
      BY <3>1, <3>2
    <3> QED
      BY <3>3
  <2>2. /\ list \in Seq(Changes) /\ Len(list) = 2
        /\ DOMAIN list = {1, 2} /\ list[1] = off /\ list[2] = on
    BY <2>1, <1>2
  <2> HIDE DEF list, off, on
  <2>3. \A f \in Events : Told(list, fd, "disable", f) <=> f = Filter(old)
    BY <2>2, <1>5, <1>6 DEF Told
  <2>4. \A f \in Events : Told(list, fd, "enable", f) <=> f = Filter(new)
    BY <2>2, <1>5, <1>6 DEF Told
  <2>5. \A f \in Events : /\ f \in old \ new <=> f = Filter(old)
                          /\ f \in new \ old <=> f = Filter(new)
    BY <1>11, <1>3, <1>4
  <2> QED
    BY <2>2, <2>3, <2>4, <2>5, <1>7 DEF list
<1> QED
  BY <1>8, <1>9, <1>10, <1>11

\* Entries that are added at the end of a changelist.
LEMMA ToldJoined ==
  ASSUME NEW list \in Seq(Changes), NEW more \in Seq(Changes), NEW fd, NEW op, NEW f
  PROVE  Told(list \o more, fd, op, f) <=> Told(list, fd, op, f) \/ Told(more, fd, op, f)
<1>1. /\ Len(list) \in Nat /\ DOMAIN list = 1..Len(list)
      /\ Len(more) \in Nat /\ DOMAIN more = 1..Len(more)
      /\ DOMAIN (list \o more) = 1..(Len(list) + Len(more))
  OBVIOUS
<1>2. \A i \in DOMAIN list : i \in DOMAIN (list \o more) /\ (list \o more)[i] = list[i]
  BY <1>1
<1>3. \A i \in DOMAIN more : /\ Len(list) + i \in DOMAIN (list \o more)
                             /\ (list \o more)[Len(list) + i] = more[i]
  BY <1>1
<1>4. \A i \in DOMAIN (list \o more) \ DOMAIN list :
        i - Len(list) \in DOMAIN more /\ (list \o more)[i] = more[i - Len(list)]
  BY <1>1
<1> QED
  BY <1>2, <1>3, <1>4 DEF Told

LEMMA FdsJoined ==
  ASSUME NEW list \in Seq(Changes), NEW more \in Seq(Changes),
         NEW i \in DOMAIN (list \o more)
  PROVE  \/ \E j \in DOMAIN list : (list \o more)[i] = list[j]
         \/ \E j \in DOMAIN more : (list \o more)[i] = more[j]
<1>1. /\ Len(list) \in Nat /\ DOMAIN list = 1..Len(list)
      /\ Len(more) \in Nat /\ DOMAIN more = 1..Len(more)
      /\ DOMAIN (list \o more) = 1..(Len(list) + Len(more))
  OBVIOUS
<1>2. CASE i \in DOMAIN list
  BY <1>1, <1>2
<1>3. CASE i \notin DOMAIN list
  <2>1. i - Len(list) \in DOMAIN more /\ (list \o more)[i] = more[i - Len(list)]
    BY <1>1, <1>3
  <2> QED
    BY <2>1
<1> QED
  BY <1>2, <1>3

-----------------------------------------------------------------------------
(* The list of changed descriptors. *)

LinksTyped == _backend \in [FD -> Entry \cup {None}]

LEMMA Linked ==
  ASSUME LinksTyped, NEW fd \in FD
  PROVE  fd \in Changed <=> _backend[fd] \in Entry
BY LinkAssumption DEF LinksTyped, Changed

\* An empty list has no changed descriptors.
LEMMA ListEmpty ==
  ASSUME Listed, changed_fds = None
  PROVE  Changed = {}
<1>1. {} \in SUBSET FD /\ changed_fds \in {} \cup {None} /\ {} \cap Changed = {}
  OBVIOUS
<1> QED
  BY <1>1 DEF Listed

\* A descriptor is put before the list.
LEMMA Push ==
  ASSUME LinksTyped, Listed, NEW fd \in FD, fd \notin Changed, NEW old \in SUBSET Events,
         _backend' = [_backend EXCEPT ![fd] = [next |-> changed_fds, old |-> old]],
         changed_fds' = fd
  PROVE  /\ Listed' /\ LinksTyped' /\ Changed' = Changed \cup {fd}
         /\ _backend'[fd].old = old
<1>1. changed_fds \in FD \cup {None}
  BY DEF Listed, Changed
<1>2. [next |-> changed_fds, old |-> old] \in Entry
  BY <1>1 DEF Entry
<1>3. /\ _backend'[fd] = [next |-> changed_fds, old |-> old]
      /\ \A g \in FD \ {fd} : _backend'[g] = _backend[g]
  BY DEF LinksTyped
<1>4. LinksTyped'
  BY <1>2 DEF LinksTyped
<1>5. Changed' = Changed \cup {fd}
  BY <1>2, <1>3, LinkAssumption DEF Changed
<1>6. _backend'[fd].next = changed_fds /\ _backend'[fd].old = old
  BY <1>3
<1>7. fd # None
  BY DescriptorsAssumption
<1>8. ASSUME NEW g \in Changed'
      PROVE  _backend'[g].next \in (Changed' \ {changed_fds'}) \cup {None}
  <2>1. CASE g = fd
    BY <1>5, <1>6, <2>1 DEF Listed
  <2>2. CASE g \in Changed
    <3>1. _backend'[g].next = _backend[g].next
      BY <1>3, <2>2 DEF Changed
    <3>2. _backend[g].next \in Changed \cup {None}
      BY <2>2 DEF Listed
    <3> QED
      BY <1>5, <3>1, <3>2
  <2> QED
    BY <1>5, <1>8, <2>1, <2>2
<1>9. ASSUME NEW g \in Changed', NEW h \in Changed', _backend'[g].next = _backend'[h].next
      PROVE  g = h
  <2>1. \A i \in Changed : _backend'[i].next = _backend[i].next
    BY <1>3 DEF Changed
  <2>2. \A i \in Changed : _backend[i].next # changed_fds
    BY ListEmpty DEF Listed
  <2>3. CASE g \in Changed /\ h \in Changed
    BY <1>9, <2>1, <2>3 DEF Listed
  <2> QED
    BY <1>5, <1>6, <1>9, <2>1, <2>2, <2>3
<1>10. ASSUME NEW S \in SUBSET FD, changed_fds' \in S \cup {None},
              \A g \in S \cap Changed' : _backend'[g].next \in S \cup {None}
       PROVE  Changed' \subseteq S
  <2>1. fd \in S
    BY <1>7, <1>10
  <2>2. changed_fds \in S \cup {None}
    BY <1>5, <1>6, <1>10, <2>1
  <2>3. \A g \in S \cap Changed : _backend[g].next \in S \cup {None}
    BY <1>3, <1>5, <1>10 DEF Changed
  <2>4. Changed \subseteq S
    BY <2>2, <2>3 DEF Listed
  <2> QED
    BY <1>5, <2>1, <2>4
<1>11. changed_fds' \in Changed' \cup {None}
  BY <1>5
<1>12. Listed'
  BY <1>8, <1>9, <1>10, <1>11 DEF Listed
<1> QED
  BY <1>4, <1>5, <1>6, <1>12

\* The head of the list is taken off.
LEMMA Pop ==
  ASSUME LinksTyped, Listed, NEW fd \in FD, fd = changed_fds,
         _backend' = [_backend EXCEPT ![fd] = None],
         changed_fds' = _backend[fd].next
  PROVE  Listed' /\ LinksTyped' /\ Changed' = Changed \ {fd} /\ fd \in Changed
<1>1. fd \in Changed
  BY DescriptorsAssumption DEF Listed
<1>2. _backend'[fd] = None /\ \A g \in FD \ {fd} : _backend'[g] = _backend[g]
  BY DEF LinksTyped
<1>3. Changed' = Changed \ {fd}
  BY <1>2 DEF Changed
<1>4. LinksTyped'
  BY DEF LinksTyped
<1>5. \A g \in Changed : _backend[g].next # fd
  BY DescriptorsAssumption DEF Listed
<1>6. \A g \in Changed' : _backend'[g].next = _backend[g].next /\ g \in Changed
  BY <1>2, <1>3 DEF Changed
<1>7. changed_fds' \in Changed' \cup {None}
  BY <1>1, <1>3, <1>5 DEF Listed
<1>8. ASSUME NEW g \in Changed'
      PROVE  _backend'[g].next \in (Changed' \ {changed_fds'}) \cup {None}
  <2>1. _backend[g].next \in Changed \cup {None} /\ _backend[g].next # fd
    BY <1>5, <1>6 DEF Listed
  <2>2. _backend[g].next # _backend[fd].next
    BY <1>1, <1>3, <1>6 DEF Listed
  <2> QED
    BY <1>3, <1>6, <2>1, <2>2
<1>9. \A g, h \in Changed' : _backend'[g].next = _backend'[h].next => g = h
  BY <1>6 DEF Listed
<1>10. ASSUME NEW S \in SUBSET FD, changed_fds' \in S \cup {None},
              \A g \in S \cap Changed' : _backend'[g].next \in S \cup {None}
       PROVE  Changed' \subseteq S
  <2> DEFINE T == S \cup {fd}
  <2>1. T \in SUBSET FD /\ changed_fds \in T \cup {None}
    OBVIOUS
  <2>2. ASSUME NEW g \in T \cap Changed
        PROVE  _backend[g].next \in T \cup {None}
    <3>1. CASE g = fd
      BY <1>10, <3>1
    <3>2. CASE g # fd
      BY <1>3, <1>6, <1>10, <3>2
    <3> QED
      BY <3>1, <3>2
  <2>3. Changed \subseteq T
    <3> HIDE DEF T
    <3> QED
      BY <2>1, <2>2 DEF Listed
  <2> QED
    BY <1>3, <2>3
<1>11. Listed'
  BY <1>7, <1>8, <1>9, <1>10 DEF Listed
<1> QED
  BY <1>1, <1>3, <1>4, <1>11

-----------------------------------------------------------------------------
(* Each step keeps LoopInv. *)

LEMMA InitLoop == Init => LoopInv
<1> SUFFICES ASSUME Init PROVE LoopInv
  OBVIOUS
<1>1. Changed = {}
  BY DEF Init, Changed
<1>2. TypeOK
  BY DEF Init, TypeOK, NoEvents
<1>3. Listed
  BY <1>1 DEF Init, Listed
<1>4. KqueueSound
  BY <1>1 DEF Init, KqueueSound, KqueueFd, RoomLeft, Single, NoEvents
<1> QED
  BY <1>1, <1>2, <1>3, <1>4
  DEF Init, LoopInv, Running, Phases, EpollSound, BatchAsked

LEMMA ListSame ==
  ASSUME UNCHANGED <<_backend, changed_fds>>
  PROVE  Changed' = Changed /\ (Listed => Listed')
BY DEF Changed, Listed

LEMMA KqueueSame ==
  ASSUME UNCHANGED <<backend, open, events, interest, pending>>, KqueueSound
  PROVE  KqueueSound'
BY ListSame DEF KqueueSound, KqueueFd, RoomLeft, Sent, Told, interest, pending

\* Steps that change neither a slot nor what the kernel is to watch.
LEMMA QuietStep ==
  ASSUME LoopInv, TypeOK',
         UNCHANGED <<backend, active, events, open, interest, pending, deleting, proc>>,
         phase' = "apply" => backend = "kqueue",
         phase = "apply" => phase' = "apply",
         touched' = touched \/ batch' = NoEvents,
         \A fd \in FD : batch'[fd] \subseteq batch[fd]
  PROVE  LoopInv'
<1>1. Changed' = Changed /\ Listed'
  BY ListSame DEF LoopInv, pending
<1>2. KqueueSound'
  BY KqueueSame DEF LoopInv
<1>3. Running' /\ Phases' /\ EpollSound'
  BY <1>1 DEF LoopInv, Running, Phases, EpollSound, interest, pending
<1>4. BatchAsked'
  BY DEF LoopInv, BatchAsked, NoEvents, TypeOK
<1> QED
  BY <1>1, <1>2, <1>3, <1>4 DEF LoopInv

LEMMA StutterStep == LoopInv /\ UNCHANGED vars => LoopInv'
<1> SUFFICES ASSUME LoopInv, UNCHANGED vars PROVE LoopInv'
  OBVIOUS
<1>1. TypeOK'
  BY DEF LoopInv, TypeOK, vars, files, interest, pending, calling
<1> QED
  BY <1>1, QuietStep DEF LoopInv, Phases, vars, files

LEMMA ArriveStep == LoopInv /\ (\E fd \in FD, e \in Events : Arrive(fd, e)) => LoopInv'
<1> SUFFICES ASSUME LoopInv, NEW fd \in FD, NEW e \in Events, Arrive(fd, e) PROVE LoopInv'
  OBVIOUS
<1>1. TypeOK'
  BY DEF LoopInv, TypeOK, Arrive, interest, pending, calling
<1> QED
  BY <1>1, QuietStep DEF Arrive

LEMMA ReturnStep == LoopInv /\ (Return \/ PassDone \/ BeginApply) => LoopInv'
<1> SUFFICES ASSUME LoopInv, Return \/ PassDone \/ BeginApply PROVE LoopInv'
  OBVIOUS
<1>1. CASE Return
  <2>1. TypeOK'
    BY <1>1 DEF LoopInv, TypeOK, Return, interest, pending
  <2> QED
    BY <1>1, <2>1, QuietStep DEF Return, InCallback
<1>2. CASE PassDone
  <2>1. TypeOK'
    BY <1>2 DEF LoopInv, TypeOK, PassDone, interest, pending, calling, files
  <2> QED
    BY <1>2, <2>1, QuietStep DEF PassDone, files
<1>3. CASE BeginApply
  <2>1. TypeOK'
    BY <1>3 DEF LoopInv, TypeOK, BeginApply, KqueuePoll, NoEvents, interest, pending, calling, files
  <2>2. \A fd \in FD : batch'[fd] = {}
    BY <1>3 DEF BeginApply, KqueuePoll, NoEvents
  <2> QED
    BY <1>3, <2>1, <2>2, QuietStep DEF BeginApply, KqueuePoll, files
<1> QED
  BY <1>1, <1>2, <1>3

LEMMA CallStep ==
  ASSUME LoopInv, NEW fd \in FD, Call(fd)
  PROVE  LoopInv'
<1>1. batch \in [FD -> SUBSET Events] /\ batch[fd] \subseteq Events
  BY DEF LoopInv, TypeOK
<1>2. revents' \subseteq batch[fd]
  BY DEF Call, Reported
<1>3. TypeOK'
  BY <1>1, <1>2 DEF LoopInv, TypeOK, Call, interest, pending, files
<1>4. \A g \in FD : batch'[g] \subseteq batch[g]
  BY <1>1 DEF Call
<1> QED
  BY <1>3, <1>4, QuietStep DEF Call, InPass, files

\* epoll forgets a descriptor that nobody asks for; select and kqueue change nothing.
LEMMA PassOverStep ==
  ASSUME LoopInv, NEW fd \in FD, PassOver(fd)
  PROVE  LoopInv'
<1>1. /\ UNCHANGED <<backend, active, events, open, pending, deleting, touched, phase, proc>>
      /\ batch' = [batch EXCEPT ![fd] = {}]
  BY DEF PassOver, files
<1>2. \A g \in FD : batch'[g] \subseteq batch[g]
  BY <1>1 DEF LoopInv, TypeOK
<1>3. TypeOK'
  BY DEF LoopInv, TypeOK, PassOver, SelectPassesOver, EpollPassesOver, KqueuePassesOver,
         interest, pending, calling, files
<1>4. CASE UNCHANGED interest
  BY <1>1, <1>2, <1>3, <1>4, QuietStep DEF LoopInv, Phases
<1>5. CASE backend = "epoll" /\ EpollPassesOver(fd)
  <2>1. Changed' = Changed /\ Listed'
    BY <1>1, ListSame DEF LoopInv, pending
  <2>2. EpollSound'
    BY <1>1, <1>5 DEF LoopInv, TypeOK, EpollSound, EpollPassesOver, EpollCalls
  <2>3. BatchAsked'
    BY <1>1, <1>2 DEF LoopInv, BatchAsked, TypeOK
  <2> QED
    BY <1>1, <1>3, <1>5, <2>1, <2>2, <2>3 DEF LoopInv, Running, Phases, KqueueSound, pending
<1> QED
  BY <1>4, <1>5 DEF PassOver, SelectPassesOver, KqueuePassesOver

-----------------------------------------------------------------------------
(* The poll. *)

\* Handing the changelist to the kernel brings every descriptor that has left the
\* list up to date, without an error.
LEMMA SubmitSettles ==
  ASSUME LoopInv, backend = "kqueue", NEW list \in Seq(Changes),
         \A i \in DOMAIN list : list[i].fd \in open,
         \A fd \in open, f \in Events :
           Told(list, fd, "disable", f) => f \in watch[fd]
  PROVE  /\ Kevent(list).ok
         /\ \A fd \in FD : Kevent(list).watch[fd] \subseteq Kevent(list).knotes[fd]
         /\ \A fd \in FD : (\A i \in DOMAIN list : list[i].fd # fd)
              => Kevent(list).watch[fd] = watch[fd]
<1>1. watch \in [FD -> SUBSET Events] /\ knotes \in [FD -> SUBSET Events] /\ open \subseteq FD
  BY DEF LoopInv, TypeOK
<1>2. \A fd \in FD : watch[fd] \subseteq knotes[fd]
  BY DEF LoopInv, KqueueSound, KqueueFd
<1>3. ASSUME NEW i \in DOMAIN list, NEW fd \in FD, NEW f \in Events,
             list[i] = Change(fd, "disable", f)
      PROVE  f \in knotes[fd]
  <2>1. fd \in open
    BY <1>3 DEF Change
  <2>2. Told(list, fd, "disable", f)
    BY <1>3 DEF Told
  <2> QED
    BY <1>2, <2>1, <2>2
<1>4. Kevent(list).ok
  BY <1>3, KeventOk
<1>5. \A fd \in FD : Kevent(list).watch[fd] \subseteq Kevent(list).knotes[fd]
  BY <1>2, KeventKnotes
<1>6. \A fd \in FD : (\A i \in DOMAIN list : list[i].fd # fd)
                       => Kevent(list).watch[fd] = watch[fd]
  BY <1>1, KeventSpares
<1> QED
  BY <1>4, <1>5, <1>6

\* The changelist of a state of the loop can be handed over.
LEMMA ChangelistSettles ==
  ASSUME LoopInv, backend = "kqueue"
  PROVE  /\ Kevent(changelist).ok
         /\ Kevent(changelist).watch \in [FD -> SUBSET Events]
         /\ Kevent(changelist).knotes \in [FD -> SUBSET Events]
         /\ \A fd \in FD :
              /\ Kevent(changelist).watch[fd] \subseteq Kevent(changelist).knotes[fd]
              /\ fd \notin open => Kevent(changelist).watch[fd] = {}
              /\ fd \in Changed => Kevent(changelist).watch[fd] = watch[fd]
              /\ fd \in open \ Changed => Kevent(changelist).watch[fd] = events[fd]
<1>1. /\ changelist \in Seq(Changes) /\ open \subseteq FD
      /\ watch \in [FD -> SUBSET Events] /\ knotes \in [FD -> SUBSET Events]
      /\ events \in [FD -> SUBSET Events]
  BY DEF LoopInv, TypeOK
<1>2. RoomLeft /\ \A fd \in FD : KqueueFd(fd)
  BY DEF LoopInv, KqueueSound
<1>3. ASSUME NEW fd \in open, NEW f \in Events, Told(changelist, fd, "disable", f)
      PROVE  f \in watch[fd]
  <2>1. fd \notin Changed
    BY <1>2, <1>3 DEF RoomLeft, Told, Change
  <2> QED
    BY <1>1, <1>2, <1>3, <2>1 DEF KqueueFd, Sent
<1>4. \A i \in DOMAIN changelist : changelist[i].fd \in open \ Changed
  BY <1>2 DEF RoomLeft
<1>5. /\ Kevent(changelist).ok
      /\ \A fd \in FD : Kevent(changelist).watch[fd] \subseteq Kevent(changelist).knotes[fd]
      /\ \A fd \in FD : fd \notin open \ Changed => Kevent(changelist).watch[fd] = watch[fd]
  BY <1>1, <1>3, <1>4, SubmitSettles
<1>6. ASSUME NEW fd \in FD, fd \in open \ Changed
      PROVE  Kevent(changelist).watch[fd] = events[fd]
  <2>1. Sent(fd)
    BY <1>2, <1>6 DEF KqueueFd
  <2> QED
    BY <1>1, <2>1, KeventWatches DEF Sent
<1>7. \A fd \in FD : fd \notin open => Kevent(changelist).watch[fd] = {}
  BY <1>2, <1>5 DEF KqueueFd
<1>8. Changed \subseteq FD
  BY DEF Changed
<1> QED
  BY <1>1, <1>5, <1>6, <1>7, <1>8, KeventType

LEMMA SelectStep ==
  ASSUME LoopInv, NEW answer, Poll(answer), backend = "select", SelectPoll(answer)
  PROVE  LoopInv'
<1>1. TypeOK'
  BY DEF LoopInv, TypeOK, Poll, SelectPoll, NoEvents, interest, pending, calling, files
<1>2. Changed' = Changed /\ Listed'
  BY ListSame DEF LoopInv, SelectPoll, pending
<1>3. \A fd \in active : batch'[fd] \subseteq events[fd]
  BY DEF SelectPoll, NoEvents, LoopInv, TypeOK
<1> QED
  BY <1>1, <1>2, <1>3
  DEF LoopInv, Poll, SelectPoll, Running, Phases, EpollSound, KqueueSound, BatchAsked, pending, files

LEMMA EpollStep ==
  ASSUME LoopInv, NEW answer, Poll(answer), backend = "epoll", EpollPoll(answer)
  PROVE  LoopInv'
<1>1. TypeOK'
  BY DEF LoopInv, TypeOK, Poll, EpollPoll, NoEvents, interest, pending, calling, files
<1>2. Changed' = Changed /\ Listed'
  BY ListSame DEF LoopInv, EpollPoll, pending
<1>3. \A fd \in FD : batch'[fd] \subseteq watch[fd]
  BY DEF EpollPoll, NoEvents, LoopInv, TypeOK
<1>4. BatchAsked'
  BY <1>3 DEF LoopInv, TypeOK, EpollSound, BatchAsked, Poll, EpollPoll
<1> QED
  BY <1>1, <1>2, <1>4
  DEF LoopInv, Poll, EpollPoll, Running, Phases, EpollSound, KqueueSound, pending, interest, files

LEMMA KqueueStep ==
  ASSUME LoopInv, NEW answer, Poll(answer), backend = "kqueue", KqueueWait(answer)
  PROVE  LoopInv'
<1> DEFINE kernel == Kevent(changelist)
<1>0. /\ watch' = kernel.watch /\ knotes' = kernel.knotes
      /\ proc' = IF kernel.ok THEN proc ELSE "kevent: error in changelist"
  BY DEF KqueueWait, Submit
<1>1. /\ changed_fds = None /\ deleting = None
      /\ changelist' = <<>> /\ phase' = "pass"
      /\ UNCHANGED <<_backend, changed_fds>>
      /\ UNCHANGED <<backend, active, events, open, ready, calling, deleting, touched>>
  BY DEF KqueueWait, Poll, files
<1>2. Changed = {} /\ Changed' = {} /\ Listed'
  BY <1>1, ListEmpty, ListSame DEF LoopInv
<1>3. /\ proc' = proc
      /\ watch' \in [FD -> SUBSET Events] /\ knotes' \in [FD -> SUBSET Events]
      /\ \A fd \in FD : /\ watch'[fd] \subseteq knotes'[fd]
                        /\ fd \notin open => watch'[fd] = {}
                        /\ fd \in open => watch'[fd] = events[fd]
  BY <1>0, <1>1, <1>2, ChangelistSettles
<1>4. \A fd \in FD : batch'[fd] \subseteq watch'[fd]
  BY <1>3 DEF KqueueWait, NoEvents
<1>5. batch' \in [FD -> SUBSET Events]
  BY <1>3 DEF KqueueWait, NoEvents
<1>6. TypeOK'
  <2>1. changelist' \in Seq(Changes)
    BY <1>1
  <2>2. TypeOK /\ proc' = proc
    BY <1>3 DEF LoopInv
  <2> QED
    BY <1>1, <1>3, <1>5, <2>1, <2>2 DEF TypeOK, calling
<1>7. KqueueSound'
  <2>1. RoomLeft'
    <3>1. DOMAIN changelist' = {}
      BY <1>1
    <3> QED
      BY <1>1, <3>1 DEF RoomLeft
  <2>2. ASSUME NEW fd \in FD PROVE KqueueFd(fd)'
    <3>1. Single(events[fd])
      BY DEF LoopInv, KqueueSound, KqueueFd
    <3> QED
      BY <1>1, <1>2, <1>3, <3>1 DEF KqueueFd, Sent, Told, Single
  <2> QED
    BY <2>1, <2>2 DEF KqueueSound
<1>8. BatchAsked'
  BY <1>1, <1>3, <1>4 DEF LoopInv, TypeOK, BatchAsked
<1> QED
  BY <1>1, <1>2, <1>3, <1>6, <1>7, <1>8 DEF LoopInv, Running, Phases, EpollSound

LEMMA PollStep ==
  ASSUME LoopInv, NEW answer, Poll(answer)
  PROVE  LoopInv'
BY SelectStep, EpollStep, KqueueStep DEF Poll

\* One turn of apply_pending_changes: the head of the list moves to the changelist,
\* which goes to the kernel when it has no room for two entries more.
LEMMA ApplyStep ==
  ASSUME LoopInv, NEW fd \in FD, Apply(fd)
  PROVE  LoopInv'
<1> DEFINE new == Entries(fd, _backend[fd].old, events[fd])
           list == changelist \o new
<1>1. /\ backend = "kqueue" /\ phase = "apply" /\ fd = changed_fds
      /\ UNCHANGED <<backend, active, events, open, ready, calling, deleting, touched, batch, phase>>
      /\ changed_fds' = _backend[fd].next
      /\ _backend' = [_backend EXCEPT ![fd] = None]
  BY DEF LoopInv, Phases, Apply, ApplyOne, files
<1>2. \/ Len(list) > ChangelistSize
      \/ new # <<>> /\ Full(Len(list)) /\ Submit(list) /\ changelist' = <<>>
      \/ /\ ~ (new # <<>> /\ Full(Len(list)))
         /\ changelist' = list /\ UNCHANGED <<interest, proc>>
  BY DEF Apply, ApplyOne
<1>3. /\ changelist \in Seq(Changes) /\ open \subseteq FD
      /\ watch \in [FD -> SUBSET Events] /\ events \in [FD -> SUBSET Events]
      /\ LinksTyped
  BY DEF LoopInv, TypeOK, LinksTyped
<1>4. Listed' /\ LinksTyped' /\ Changed' = Changed \ {fd} /\ fd \in Changed
  BY <1>1, <1>3, Pop DEF LoopInv
<1>5. /\ \A i \in DOMAIN changelist : changelist[i].fd \in open \ Changed
      /\ changelist = <<>> \/ ~ Full(Len(changelist))
      /\ \A g \in FD : KqueueFd(g)
  BY <1>1 DEF LoopInv, KqueueSound, RoomLeft
<1>6. fd \in open /\ watch[fd] = _backend[fd].old /\ Single(watch[fd]) /\ Single(events[fd])
  BY <1>4, <1>5 DEF KqueueFd
<1>7. /\ new \in Seq(Changes) /\ Len(new) <= 2
      /\ \A i \in DOMAIN new : new[i].fd = fd
      /\ \A f \in Events : /\ Told(new, fd, "disable", f) <=> f \in watch[fd] \ events[fd]
                           /\ Told(new, fd, "enable", f) <=> f \in events[fd] \ watch[fd]
  BY <1>6, EntriesTell
<1> HIDE DEF new
<1>8. list \in Seq(Changes) /\ Len(list) = Len(changelist) + Len(new)
  BY <1>3, <1>7
<1>9. Len(list) <= ChangelistSize
  <2>1. Len(changelist) \in Nat /\ Len(new) \in Nat
    BY <1>3, <1>7
  <2>2. CASE changelist = <<>>
    BY <1>7, <1>8, <2>1, <2>2, ChangelistAssumption
  <2>3. CASE ~ Full(Len(changelist))
    BY <1>7, <1>8, <2>1, <2>3, ChangelistAssumption DEF Full
  <2> QED
    BY <1>5, <2>2, <2>3
<1>10. \A g \in FD, op \in {"disable", "enable"}, f \in Events :
         Told(list, g, op, f) <=> Told(changelist, g, op, f) \/ Told(new, g, op, f)
  BY <1>3, <1>7, ToldJoined
<1>11. \A g \in FD \ {fd}, op \in {"disable", "enable"}, f \in Events : ~ Told(new, g, op, f)
  BY <1>7 DEF Told, Change
<1>12. \A op \in {"disable", "enable"}, f \in Events : ~ Told(changelist, fd, op, f)
  BY <1>4, <1>5 DEF Told, Change
<1>13. \A g \in open \ Changed', f \in Events :
         /\ Told(list, g, "disable", f) <=> f \in watch[g] \ events[g]
         /\ Told(list, g, "enable", f) <=> f \in events[g] \ watch[g]
  <2>1. ASSUME NEW g \in open \ Changed', g # fd
        PROVE  Sent(g)
    BY <1>3, <1>4, <1>5, <2>1 DEF KqueueFd
  <2> HIDE DEF list
  <2> QED
    BY <1>3, <1>7, <1>10, <1>11, <1>12, <2>1 DEF Sent
<1>14. \A i \in DOMAIN list : list[i].fd \in open \ Changed'
  <2>1. ASSUME NEW i \in DOMAIN list PROVE list[i].fd \in open \ Changed'
    <3>1. \/ \E j \in DOMAIN changelist : list[i] = changelist[j]
          \/ \E j \in DOMAIN new : list[i] = new[j]
      BY <1>3, <1>7, FdsJoined
    <3> HIDE DEF list
    <3> QED
      BY <1>4, <1>5, <1>6, <1>7, <3>1
  <2> QED
    BY <2>1
<1> HIDE DEF list
<1>15. CASE Submit(list) /\ changelist' = <<>>
  <2> DEFINE kernel == Kevent(list)
  <2>1. /\ watch' = kernel.watch /\ knotes' = kernel.knotes
        /\ proc' = IF kernel.ok THEN proc ELSE "kevent: error in changelist"
    BY <1>15 DEF Submit
  <2>2. \A g \in open, f \in Events : Told(list, g, "disable", f) => f \in watch[g]
    BY <1>13, <1>14 DEF Told, Change
  <2>3. /\ kernel.ok
        /\ \A g \in FD : kernel.watch[g] \subseteq kernel.knotes[g]
        /\ \A g \in FD : g \notin open \ Changed' => kernel.watch[g] = watch[g]
    <3>1. \A g \in FD : g \notin open \ Changed' => \A i \in DOMAIN list : list[i].fd # g
      BY <1>14
    <3>2. \A i \in DOMAIN list : list[i].fd \in open
      BY <1>14
    <3> QED
      BY <1>1, <1>8, <2>2, <3>1, <3>2, SubmitSettles
  <2>4. \A g \in open \ Changed' : kernel.watch[g] = events[g]
    BY <1>3, <1>8, <1>13, KeventWatches
  <2>5. kernel.watch \in [FD -> SUBSET Events] /\ kernel.knotes \in [FD -> SUBSET Events]
    BY <1>8, KeventType DEF LoopInv, TypeOK
  <2> HIDE DEF kernel
  <2>6. proc' = proc
    BY <2>1, <2>3
  <2>7. changelist' \in Seq(Changes) /\ DOMAIN changelist' = {}
    BY <1>15
  <2>8. TypeOK'
    <3>1. TypeOK
      BY DEF LoopInv
    <3> QED
      BY <1>1, <1>4, <2>1, <2>5, <2>6, <2>7, <3>1 DEF TypeOK, LinksTyped, calling, Listed, Changed
  <2>9. RoomLeft'
    BY <1>15, <2>7 DEF RoomLeft
  <2>10. ASSUME NEW g \in FD PROVE KqueueFd(g)'
    <3>1. KqueueFd(g)
      BY <1>5
    <3>2. watch'[g] = kernel.watch[g] /\ knotes'[g] = kernel.knotes[g] /\ events'[g] = events[g]
      BY <1>1, <2>1
    <3>3. CASE g \in open \ Changed'
      <4>1. watch'[g] = events[g]
        BY <2>4, <3>2, <3>3
      <4>2. Sent(g)'
        BY <2>7, <3>2, <4>1 DEF Sent, Told
      <4> QED
        BY <1>1, <2>3, <3>1, <3>2, <3>3, <4>1, <4>2 DEF KqueueFd
    <3>4. CASE g \notin open \ Changed'
      <4>1. watch'[g] = watch[g]
        BY <2>3, <3>2, <3>4
      <4>2. g \in Changed' => g \in Changed /\ _backend'[g] = _backend[g]
        BY <1>1, <1>3, <1>4 DEF LinksTyped
      <4> QED
        BY <1>1, <1>4, <1>6, <2>3, <3>1, <3>2, <3>4, <4>1, <4>2 DEF KqueueFd
    <3> QED
      BY <3>3, <3>4
  <2>11. KqueueSound'
    BY <2>9, <2>10 DEF KqueueSound
  <2> QED
    BY <1>1, <1>4, <2>6, <2>8, <2>11 DEF LoopInv, Running, Phases, EpollSound, BatchAsked
<1>16. CASE /\ ~ (new # <<>> /\ Full(Len(list)))
            /\ changelist' = list /\ UNCHANGED <<interest, proc>>
  <2>1. watch' = watch /\ knotes' = knotes /\ proc' = proc /\ changelist' = list
    BY <1>16 DEF interest
  <2>2. TypeOK'
    <3>1. TypeOK
      BY DEF LoopInv
    <3> QED
      BY <1>1, <1>4, <1>8, <2>1, <3>1 DEF TypeOK, LinksTyped, calling, Listed, Changed
  <2>3. list = <<>> \/ ~ Full(Len(list))
    <3>1. CASE new # <<>>
      BY <1>16, <3>1
    <3>2. CASE new = <<>>
      <4>1. list = changelist
        BY <1>3, <3>2 DEF list
      <4> QED
        BY <1>5, <4>1
    <3> QED
      BY <3>1, <3>2
  <2>4. RoomLeft'
    BY <1>1, <1>14, <2>1, <2>3 DEF RoomLeft
  <2>5. ASSUME NEW g \in FD PROVE KqueueFd(g)'
    <3>1. KqueueFd(g)
      BY <1>5
    <3>2. g \in open \ Changed' => Sent(g)'
      BY <1>1, <1>13, <2>1 DEF Sent
    <3>3. g \in Changed' => g \in Changed /\ _backend'[g] = _backend[g]
      BY <1>1, <1>3, <1>4 DEF LinksTyped
    <3> QED
      BY <1>1, <1>4, <1>6, <2>1, <3>1, <3>2, <3>3 DEF KqueueFd
  <2>6. KqueueSound'
    BY <2>4, <2>5 DEF KqueueSound
  <2> QED
    BY <1>1, <1>4, <2>1, <2>2, <2>6 DEF LoopInv, Running, Phases, EpollSound, BatchAsked
<1>17. ~ (Len(list) > ChangelistSize)
  <2>1. Len(list) \in Nat /\ ChangelistSize \in Nat
    BY <1>8, ChangelistAssumption
  <2> QED
    BY <1>9, <2>1
<1> QED
  BY <1>2, <1>15, <1>16, <1>17 DEF list, new

\* picoev_del of kqueue, after its changes are applied, and the close() that follows.
LEMMA DelAppliedStep ==
  ASSUME LoopInv, NEW fd \in FD, DelApplied(fd)
  PROVE  LoopInv'
<1> DEFINE kernel == Kevent(changelist)
<1>1. /\ backend = "kqueue" /\ fd = deleting /\ changed_fds = None
      /\ open' = open \ {fd} /\ ready' = [ready EXCEPT ![fd] = {}]
      /\ changelist' = <<>> /\ deleting' = None /\ phase' = "callback"
      /\ UNCHANGED <<backend, active, events, _backend, changed_fds, batch, calling, touched>>
  BY DEF LoopInv, Phases, DelApplied, Closes
<1>2. /\ watch' = [kernel.watch EXCEPT ![fd] = {}]
      /\ knotes' = [kernel.knotes EXCEPT ![fd] = {}]
      /\ proc' = IF kernel.ok THEN proc ELSE "kevent: error in changelist"
  BY DEF DelApplied, Closes
<1>3. Changed = {} /\ Changed' = {} /\ Listed'
  BY <1>1, ListEmpty, ListSame DEF LoopInv
<1>4. /\ kernel.ok
      /\ kernel.watch \in [FD -> SUBSET Events] /\ kernel.knotes \in [FD -> SUBSET Events]
      /\ \A g \in FD : /\ kernel.watch[g] \subseteq kernel.knotes[g]
                       /\ g \notin open => kernel.watch[g] = {}
                       /\ g \in open => kernel.watch[g] = events[g]
  BY <1>1, <1>3, ChangelistSettles
<1> HIDE DEF kernel
<1>5. /\ watch'[fd] = {} /\ knotes'[fd] = {} /\ proc' = proc
      /\ \A g \in FD \ {fd} : watch'[g] = kernel.watch[g] /\ knotes'[g] = kernel.knotes[g]
      /\ watch' \in [FD -> SUBSET Events] /\ knotes' \in [FD -> SUBSET Events]
  BY <1>2, <1>4
<1>6. changelist' \in Seq(Changes) /\ DOMAIN changelist' = {}
  BY <1>1
<1>7. fd \in open \ active /\ open \subseteq active \cup {fd}
  BY <1>1, DescriptorsAssumption DEF LoopInv, Phases
<1>8. TypeOK'
  <2>1. TypeOK
    BY DEF LoopInv
  <2> QED
    BY <1>1, <1>5, <1>6, <1>7, <2>1 DEF TypeOK, calling
<1>9. RoomLeft'
  BY <1>1, <1>6 DEF RoomLeft
<1>10. ASSUME NEW g \in FD PROVE KqueueFd(g)'
  <2>1. KqueueFd(g)
    BY <1>1 DEF LoopInv, KqueueSound
  <2>2. CASE g = fd
    BY <1>1, <1>3, <1>5, <2>1, <2>2 DEF KqueueFd, Single
  <2>3. CASE g # fd
    <3>1. g \in open' => watch'[g] = events'[g]
      BY <1>1, <1>4, <1>5, <2>3
    <3>2. g \in open' => Sent(g)'
      BY <1>6, <3>1 DEF Sent, Told
    <3> QED
      BY <1>1, <1>3, <1>4, <1>5, <2>1, <2>3, <3>1, <3>2 DEF KqueueFd, Single
  <2> QED
    BY <2>2, <2>3
<1>11. KqueueSound'
  BY <1>9, <1>10 DEF KqueueSound
<1> QED
  BY <1>1, <1>3, <1>5, <1>7, <1>8, <1>11 DEF LoopInv, Running, Phases, EpollSound, BatchAsked

-----------------------------------------------------------------------------
(* The client. *)

\* What a change of interest does to a slot of kqueue, before the kernel hears of it.
LEMMA KqueueChange ==
  ASSUME LoopInv, backend = "kqueue", changelist = <<>>, NEW fd \in FD,
         NEW E \in SUBSET Events, Single(E), NEW op,
         \/ op = "add" /\ fd \notin open
         \/ op = "set" /\ fd \in open /\ E # events[fd]
         \/ op = "del" /\ fd \in open,
         KqueueUpdate(fd, IF op = "add" THEN {} ELSE events[fd], E, op)
  PROVE  /\ Listed' /\ LinksTyped' /\ Changed' \subseteq Changed \cup {fd}
         /\ events' \in [FD -> SUBSET Events] /\ Single(events'[fd])
         /\ \A g \in FD \ {fd} : /\ events'[g] = events[g] /\ _backend'[g] = _backend[g]
                                 /\ g \in Changed' <=> g \in Changed
         /\ fd \in Changed' => _backend'[fd].old = watch[fd]
         /\ fd \notin Changed' => op = "del" \/ events'[fd] = watch[fd]
         /\ op = "del" /\ _backend[fd] # None => changed_fds' # None
         /\ UNCHANGED <<changelist, proc>>
<1> DEFINE now == IF op = "add" THEN {} ELSE events[fd]
           idle == NothingToDo(_backend, fd, now, E, op)
<1>1. /\ events \in [FD -> SUBSET Events] /\ watch \in [FD -> SUBSET Events]
      /\ LinksTyped /\ Listed
  BY DEF LoopInv, TypeOK, LinksTyped
<1>2. KqueueFd(fd)
  BY DEF LoopInv, KqueueSound
<1>3. fd \in Changed <=> _backend[fd] # None
  BY DEF Changed
<1>4. fd \in open /\ fd \notin Changed => watch[fd] = events[fd]
  <2>1. ASSUME Sent(fd) PROVE watch[fd] = events[fd]
    <3>1. \A f \in Events : f \in watch[fd] <=> f \in events[fd]
      BY <2>1 DEF Sent, Told
    <3> QED
      BY <1>1, <3>1
  <2> QED
    BY <1>2, <2>1 DEF KqueueFd
<1>5. op = "add" => fd \notin Changed /\ watch[fd] = {}
  BY <1>2 DEF KqueueFd
<1>6. Backend(op, fd) = _backend
  BY <1>1, <1>3, <1>5 DEF Backend, LinksTyped
<1>7. /\ events' = [events EXCEPT ![fd] = IF idle THEN now ELSE E]
      /\ IF idle THEN _backend' = _backend /\ UNCHANGED changed_fds
                 ELSE Link(_backend, fd, now)
      /\ UNCHANGED <<changelist, proc>>
  BY <1>6 DEF KqueueUpdate
<1>8. now \in SUBSET Events /\ Single(now)
  BY <1>1, <1>2 DEF KqueueFd, Single
<1>9. events' \in [FD -> SUBSET Events] /\ Single(events'[fd])
  BY <1>1, <1>7, <1>8
<1>10. \A g \in FD \ {fd} : events'[g] = events[g]
  BY <1>1, <1>7
<1>11. CASE idle
  <2>1. _backend' = _backend /\ changed_fds' = changed_fds /\ events'[fd] = now
    BY <1>1, <1>7, <1>11
  <2>2. Changed' = Changed /\ Listed' /\ LinksTyped'
    BY <1>1, <2>1, ListSame DEF LinksTyped
  <2>3. CASE op = "del"
    <3>1. fd \notin Changed /\ _backend[fd] = None
      BY <1>3, <1>11, <2>3 DEF NothingToDo
    <3> QED
      BY <1>7, <1>9, <1>10, <2>1, <2>2, <2>3, <3>1
  <2>4. CASE op = "add"
    BY <1>5, <1>7, <1>9, <1>10, <2>1, <2>2, <2>4
  <2> QED
    BY <1>11, <2>3, <2>4 DEF NothingToDo
<1>12. CASE ~ idle /\ fd \in Changed
  <2>1. _backend' = _backend /\ changed_fds' = changed_fds
    BY <1>3, <1>7, <1>12 DEF Link
  <2>2. Changed' = Changed /\ Listed' /\ LinksTyped'
    BY <1>1, <2>1, ListSame DEF LinksTyped
  <2>3. watch[fd] = _backend[fd].old
    BY <1>2, <1>12 DEF KqueueFd
  <2>4. changed_fds # None
    BY <1>1, <1>12, ListEmpty
  <2> QED
    BY <1>7, <1>9, <1>10, <1>12, <2>1, <2>2, <2>3, <2>4
<1>13. CASE ~ idle /\ fd \notin Changed
  <2>1. /\ _backend' = [_backend EXCEPT ![fd] = [next |-> changed_fds, old |-> now]]
        /\ changed_fds' = fd
    BY <1>3, <1>7, <1>13 DEF Link
  <2>2. Listed' /\ LinksTyped' /\ Changed' = Changed \cup {fd} /\ _backend'[fd].old = now
    BY <1>1, <1>8, <1>13, <2>1, Push
  <2>3. now = watch[fd]
    BY <1>4, <1>5, <1>13
  <2>4. \A g \in FD \ {fd} : _backend'[g] = _backend[g]
    BY <1>1, <2>1 DEF LinksTyped
  <2>5. changed_fds' # None
    BY <2>1, DescriptorsAssumption
  <2> QED
    BY <1>7, <1>9, <1>10, <2>2, <2>3, <2>4, <2>5
<1> QED
  BY <1>11, <1>12, <1>13

\* What a change of interest does to a slot of select or epoll.
LEMMA OtherChange ==
  ASSUME LoopInv, backend # "kqueue", NEW fd \in FD, NEW E \in SUBSET Events, NEW op,
         \/ op \in {"add", "del"}
         \/ op = "set" /\ fd \in active /\ E # events[fd],
         UpdateEvents(fd, IF op = "add" THEN {} ELSE events[fd], E, op)
  PROVE  /\ events' = [events EXCEPT ![fd] = E]
         /\ watch' \in [FD -> SUBSET Events]
         /\ \A g \in FD \ {fd} : watch'[g] = watch[g]
         /\ backend = "epoll" /\ op # "del" /\ E # {} => watch'[fd] = E
         /\ UNCHANGED <<knotes, pending, proc>>
<1>1. /\ watch \in [FD -> SUBSET Events] /\ backend \in {"select", "epoll"}
      /\ EpollSound
  BY BackendsAssumption DEF LoopInv, TypeOK
<1>2. CASE backend = "select"
  BY <1>1, <1>2 DEF UpdateEvents, SelectUpdate, interest
<1>3. CASE backend = "epoll"
  <2> DEFINE now == IF op = "add" THEN {} ELSE events[fd]
  <2>1. /\ events' = [events EXCEPT ![fd] = E]
        /\ watch' = EpollWatch(fd, now, E, op)
        /\ proc' = EpollOutcome(fd, now, E, op)
        /\ UNCHANGED <<knotes, pending>>
    BY <1>3 DEF UpdateEvents, EpollUpdate
  <2>2. E # now /\ op # "del" => ~ (E = {} /\ watch[fd] = {})
    BY <1>1, <1>3 DEF EpollSound
  <2>3. proc' = proc
    BY <2>1, <2>2 DEF EpollOutcome
  <2>4. CASE E = now \/ op = "del"
    <3>1. watch' = watch
      BY <2>1, <2>4 DEF EpollWatch
    <3>2. op # "del" /\ E # {} => op = "add" /\ E = {}
      BY <2>4
    <3> QED
      BY <1>1, <2>1, <2>3, <3>1, <3>2
  <2>5. CASE E # now /\ op # "del"
    <3>1. watch' = [watch EXCEPT ![fd] = E]
      BY <2>1, <2>5 DEF EpollWatch
    <3> QED
      BY <1>1, <2>1, <2>3, <3>1
  <2> QED
    BY <2>4, <2>5
<1> QED
  BY <1>1, <1>2, <1>3

\* A change during the pass is marked if the batch still holds an event of before it.
LEMMA TouchStep ==
  ASSUME TypeOK, BatchAsked, NEW fd \in FD, Touch(fd), UNCHANGED <<backend, batch>>,
         \A g \in FD \ {fd} : events'[g] = events[g],
         active' \subseteq active \cup {fd}
  PROVE  BatchAsked' /\ touched' \subseteq FD
<1>1. touched' \subseteq FD /\ touched \subseteq touched'
  BY DEF TypeOK, Touch
<1>2. batch[fd] = {} \/ fd \in touched'
  BY DEF Touch
<1> QED
  BY <1>1, <1>2 DEF BatchAsked, TypeOK

\* picoev_add, picoev_set_events or picoev_del of select and epoll.
LEMMA OtherStep ==
  ASSUME LoopInv, backend # "kqueue", phase # "apply", NEW fd \in FD,
         NEW E \in SUBSET Events, NEW op,
         \/ op \in {"add", "del"}
         \/ op = "set" /\ fd \in active /\ E # events[fd],
         UpdateEvents(fd, IF op = "add" THEN {} ELSE events[fd], E, op),
         active' = IF op = "del" THEN active \ {fd} ELSE active \cup {fd},
         Touch(fd), open' \in {open, open \cup {fd}}, active' \subseteq open',
         UNCHANGED <<backend, ready, batch, phase, calling, deleting>>
  PROVE  LoopInv'
<1>1. /\ events' = [events EXCEPT ![fd] = E]
      /\ watch' \in [FD -> SUBSET Events]
      /\ \A g \in FD \ {fd} : watch'[g] = watch[g]
      /\ backend = "epoll" /\ op # "del" /\ E # {} => watch'[fd] = E
      /\ UNCHANGED <<knotes, pending, proc>>
  BY OtherChange
<1>2. TypeOK /\ BatchAsked /\ events \in [FD -> SUBSET Events]
  BY DEF LoopInv, TypeOK
<1>3. events'[fd] = E /\ \A g \in FD \ {fd} : events'[g] = events[g]
  BY <1>1, <1>2
<1>4. BatchAsked' /\ touched' \subseteq FD
  BY <1>2, <1>3, TouchStep
<1>5. TypeOK'
  BY <1>1, <1>2, <1>4 DEF TypeOK, pending, calling
<1>6. Changed' = Changed /\ Listed'
  BY <1>1, ListSame DEF LoopInv, pending
<1>7. EpollSound'
  BY <1>1, <1>2, <1>3 DEF LoopInv, EpollSound, TypeOK
<1> QED
  BY <1>1, <1>4, <1>5, <1>6, <1>7 DEF LoopInv, Running, Phases, KqueueSound, pending

\* picoev_add or picoev_set_events of kqueue.
LEMMA KqueueClientStep ==
  ASSUME LoopInv, backend = "kqueue", phase # "apply", NEW fd \in FD,
         NEW E \in SUBSET Events, Single(E), NEW op,
         \/ op = "add" /\ fd \notin open
         \/ op = "set" /\ fd \in active /\ E # events[fd],
         UpdateEvents(fd, IF op = "add" THEN {} ELSE events[fd], E, op),
         active' = active \cup {fd}, open' = open \cup {fd}, Touch(fd),
         UNCHANGED <<backend, ready, batch, phase, calling, deleting>>
  PROVE  LoopInv'
<1>1. TypeOK /\ BatchAsked /\ KqueueSound /\ changelist = <<>> /\ deleting = None
  BY DEF LoopInv, Phases
<1>2. UNCHANGED interest /\ KqueueUpdate(fd, IF op = "add" THEN {} ELSE events[fd], E, op)
  BY DEF UpdateEvents
<1>3. fd \in active => fd \in open
  BY <1>1 DEF TypeOK
<1>4. /\ Listed' /\ LinksTyped' /\ Changed' \subseteq Changed \cup {fd}
      /\ events' \in [FD -> SUBSET Events] /\ Single(events'[fd])
      /\ \A g \in FD \ {fd} : /\ events'[g] = events[g] /\ _backend'[g] = _backend[g]
                              /\ g \in Changed' <=> g \in Changed
      /\ fd \in Changed' => _backend'[fd].old = watch[fd]
      /\ fd \notin Changed' => events'[fd] = watch[fd]
      /\ UNCHANGED <<changelist, proc>>
  BY <1>1, <1>2, <1>3, KqueueChange
<1>5. BatchAsked' /\ touched' \subseteq FD
  BY <1>1, <1>4, TouchStep
<1>6. TypeOK'
  BY <1>1, <1>2, <1>4, <1>5 DEF TypeOK, LinksTyped, interest, calling, Listed, Changed
<1>7. RoomLeft'
  BY <1>1, <1>4 DEF RoomLeft
<1>8. ASSUME NEW g \in FD PROVE KqueueFd(g)'
  <2>1. KqueueFd(g)
    BY <1>1 DEF KqueueSound
  <2>2. watch' = watch /\ knotes' = knotes /\ changelist' = <<>>
    BY <1>1, <1>2, <1>4 DEF interest
  <2>3. CASE g = fd
    <3>1. g \notin Changed' => Sent(g)'
      BY <1>4, <2>2, <2>3 DEF Sent, Told
    <3> QED
      BY <1>4, <2>1, <2>2, <2>3, <3>1 DEF KqueueFd
  <2>4. CASE g # fd
    <3>1. Sent(g) => Sent(g)'
      BY <1>1, <1>4, <2>2, <2>4 DEF Sent, Told
    <3> QED
      BY <1>4, <2>1, <2>2, <2>4, <3>1 DEF KqueueFd
  <2> QED
    BY <2>3, <2>4
<1>9. KqueueSound'
  BY <1>7, <1>8 DEF KqueueSound
<1>10. Phases'
  BY <1>1, <1>4 DEF LoopInv, Phases
<1> QED
  BY <1>4, <1>5, <1>6, <1>9, <1>10 DEF LoopInv, Running, EpollSound

LEMMA AskedSingle ==
  ASSUME OneEventOnKqueue, backend = "kqueue", NEW E \in Asked
  PROVE  E \in SUBSET Events /\ Single(E)
BY DEF OneEventOnKqueue, Asked, Single, Events

LEMMA AcceptStep ==
  ASSUME OneEventOnKqueue, LoopInv, NEW fd \in FD, Accept(fd)
  PROVE  LoopInv'
<1>1. PICK E \in Asked : UpdateEvents(fd, {}, E, "add")
  BY DEF Accept, Register
<1>2. /\ phase # "apply" /\ fd \notin open
      /\ open' = open \cup {fd} /\ active' = active \cup {fd} /\ Touch(fd)
      /\ UNCHANGED <<backend, ready, batch, phase, calling, deleting>>
      /\ active' \subseteq open' /\ E \in SUBSET Events
  BY DEF Accept, Register, LoopInv, TypeOK, Asked
<1>3. CASE backend = "kqueue"
  BY <1>1, <1>2, <1>3, AskedSingle, KqueueClientStep
<1>4. CASE backend # "kqueue"
  BY <1>1, <1>2, <1>4, OtherStep
<1> QED
  BY <1>3, <1>4

\* kqueue has no descriptor that is open and not in the loop when a callback runs.
LEMMA NoneKept ==
  ASSUME LoopInv, InCallback, NEW fd \in open \ active
  PROVE  backend # "kqueue"
BY DescriptorsAssumption DEF LoopInv, Phases, TypeOK, InCallback

LEMMA AddStep ==
  ASSUME LoopInv, NEW fd \in FD, Add(fd)
  PROVE  LoopInv'
<1>1. PICK E \in Asked : UpdateEvents(fd, {}, E, "add")
  BY DEF Add, Register
<1>2. /\ phase # "apply" /\ backend # "kqueue"
      /\ open' = open /\ active' = active \cup {fd} /\ Touch(fd)
      /\ UNCHANGED <<backend, ready, batch, phase, calling, deleting>>
      /\ active' \subseteq open' /\ E \in SUBSET Events
  BY NoneKept DEF Add, Register, LoopInv, TypeOK, Asked, InCallback, files
<1> QED
  BY <1>1, <1>2, OtherStep

LEMMA SetEventsStep ==
  ASSUME OneEventOnKqueue, LoopInv, NEW fd \in FD, SetEvents(fd)
  PROVE  LoopInv'
<1>1. PICK E \in Asked : E # events[fd] /\ UpdateEvents(fd, events[fd], E, "set")
  BY DEF SetEvents
<1>2. /\ phase # "apply" /\ fd \in active /\ Touch(fd)
      /\ open' = open /\ active' = active
      /\ UNCHANGED <<backend, ready, batch, phase, calling, deleting>>
      /\ active \subseteq open /\ E \in SUBSET Events
  BY DEF SetEvents, LoopInv, TypeOK, Asked, InCallback, files
<1>3. active' = active \cup {fd} /\ open' = open \cup {fd}
  BY <1>2
<1>4. CASE backend = "kqueue"
  BY <1>1, <1>2, <1>3, <1>4, AskedSingle, KqueueClientStep
<1>5. CASE backend # "kqueue"
  BY <1>1, <1>2, <1>3, <1>5, OtherStep
<1> QED
  BY <1>4, <1>5

LEMMA DelStep ==
  ASSUME LoopInv, NEW fd \in FD, Del(fd)
  PROVE  LoopInv'
<1>1. /\ UpdateEvents(fd, events[fd], {}, "del") /\ backend # "kqueue"
      /\ phase # "apply" /\ fd \in active /\ Touch(fd)
      /\ open' = open /\ active' = active \ {fd}
      /\ UNCHANGED <<backend, ready, batch, phase, calling, deleting>>
      /\ active' \subseteq open'
  BY DEF Del, LoopInv, TypeOK, InCallback, files
<1> QED
  BY <1>1, OtherStep

LEMMA CloseStep ==
  ASSUME LoopInv, NEW fd \in FD, Close(fd)
  PROVE  LoopInv'
<1>1. /\ fd \in open \ active /\ phase = "callback"
      /\ open' = open \ {fd} /\ ready' = [ready EXCEPT ![fd] = {}]
      /\ watch' = [watch EXCEPT ![fd] = {}] /\ knotes' = [knotes EXCEPT ![fd] = {}]
      /\ UNCHANGED <<backend, active, events, pending, batch, phase, calling, deleting,
                     touched, proc>>
  BY DEF Close, Closes, InCallback
<1>2. backend # "kqueue"
  BY NoneKept DEF Close, InCallback
<1>3. TypeOK'
  BY <1>1 DEF LoopInv, TypeOK, pending, calling
<1>4. Changed' = Changed /\ Listed'
  BY <1>1, ListSame DEF LoopInv, pending
<1>5. EpollSound'
  BY <1>1 DEF LoopInv, EpollSound, TypeOK
<1>6. Phases'
  BY <1>1, <1>2, <1>4 DEF LoopInv, Phases, pending
<1> QED
  BY <1>1, <1>2, <1>3, <1>4, <1>5, <1>6 DEF LoopInv, Running, KqueueSound, BatchAsked

LEMMA CloseConnStep ==
  ASSUME LoopInv, NEW fd \in FD, CloseConn(fd)
  PROVE  LoopInv'
<1> DEFINE idle == NothingToDo(_backend, fd, events[fd], {}, "del")
<1>1. /\ backend = "kqueue" /\ fd \in active /\ phase = "callback"
      /\ KqueueUpdate(fd, events[fd], {}, "del")
      /\ active' = active \ {fd} /\ Touch(fd)
      /\ UNCHANGED <<backend, batch, calling>>
  BY DEF CloseConn, InCallback
<1>2. TypeOK /\ BatchAsked /\ KqueueSound /\ changelist = <<>> /\ deleting = None /\ fd \in open
  BY <1>1 DEF LoopInv, Phases, TypeOK
<1>3. Single({}) /\ {} \in SUBSET Events
  BY DEF Single
<1>4. /\ Listed' /\ LinksTyped' /\ Changed' \subseteq Changed \cup {fd}
      /\ events' \in [FD -> SUBSET Events] /\ Single(events'[fd])
      /\ \A g \in FD \ {fd} : /\ events'[g] = events[g] /\ _backend'[g] = _backend[g]
                              /\ g \in Changed' <=> g \in Changed
      /\ fd \in Changed' => _backend'[fd].old = watch[fd]
      /\ _backend[fd] # None => changed_fds' # None
      /\ UNCHANGED <<changelist, proc>>
  BY <1>1, <1>2, <1>3, KqueueChange
<1>5. BatchAsked' /\ touched' \subseteq FD
  BY <1>1, <1>2, <1>4, TouchStep
<1>6. RoomLeft'
  BY <1>2, <1>4 DEF RoomLeft
<1>7. open \subseteq active
  BY <1>1, NoneKept DEF CloseConn
<1>8. CASE idle
  <2>1. /\ open' = open \ {fd} /\ ready' = [ready EXCEPT ![fd] = {}]
        /\ watch' = [watch EXCEPT ![fd] = {}] /\ knotes' = [knotes EXCEPT ![fd] = {}]
        /\ deleting' = deleting /\ phase' = phase
    BY <1>8 DEF CloseConn, Closes
  <2>2. _backend[fd] = None /\ _backend' = _backend
    BY <1>1, <1>8 DEF NothingToDo, KqueueUpdate, Backend
  <2>3. TypeOK'
    BY <1>1, <1>2, <1>4, <1>5, <2>1 DEF TypeOK, LinksTyped, calling, Listed, Changed
  <2>4. ASSUME NEW g \in FD PROVE KqueueFd(g)'
    <3>1. KqueueFd(g)
      BY <1>1, <1>2 DEF KqueueSound
    <3>2. CASE g = fd
      <4>1. watch'[g] = {} /\ g \notin open' /\ g \notin Changed'
        BY <1>2, <2>1, <2>2, <3>2 DEF TypeOK, Changed
      <4> QED
        BY <1>4, <3>2, <4>1 DEF KqueueFd, Single
    <3>3. CASE g # fd
      <4>1. watch'[g] = watch[g] /\ knotes'[g] = knotes[g] /\ (g \in open' <=> g \in open)
        BY <1>2, <2>1, <3>3 DEF TypeOK
      <4>2. Sent(g) => Sent(g)'
        BY <1>4, <3>3, <4>1 DEF Sent, Told
      <4> QED
        BY <1>4, <3>1, <3>3, <4>1, <4>2 DEF KqueueFd
    <3> QED
      BY <3>2, <3>3
  <2>5. KqueueSound'
    BY <1>6, <2>4 DEF KqueueSound
  <2>6. Phases'
    BY <1>1, <1>2, <1>4, <1>7, <2>1 DEF Phases
  <2> QED
    BY <1>1, <1>4, <1>5, <2>3, <2>5, <2>6 DEF LoopInv, Running, EpollSound
<1>9. CASE ~ idle
  <2>1. deleting' = fd /\ phase' = "apply" /\ UNCHANGED <<files, interest>>
    BY <1>9 DEF CloseConn
  <2>2. TypeOK'
    BY <1>1, <1>2, <1>4, <1>5, <2>1
    DEF TypeOK, LinksTyped, calling, files, interest, Listed, Changed
  <2>3. ASSUME NEW g \in FD PROVE KqueueFd(g)'
    <3>1. KqueueFd(g)
      BY <1>1, <1>2 DEF KqueueSound
    <3>2. watch' = watch /\ knotes' = knotes /\ open' = open
      BY <2>1 DEF files, interest
    <3>3. CASE g = fd
      <4>1. fd \in Changed'
        BY <1>1, <1>9 DEF NothingToDo, KqueueUpdate, Backend, Link, Changed
      <4> QED
        BY <1>2, <1>4, <3>1, <3>2, <3>3, <4>1 DEF KqueueFd
    <3>4. CASE g # fd
      <4>1. Sent(g) => Sent(g)'
        BY <1>4, <3>2, <3>4 DEF Sent, Told
      <4> QED
        BY <1>4, <3>1, <3>2, <3>4, <4>1 DEF KqueueFd
    <3> QED
      BY <3>3, <3>4
  <2>4. KqueueSound'
    BY <1>6, <2>3 DEF KqueueSound
  <2>5. Phases'
    BY <1>1, <1>2, <1>4, <1>7, <2>1 DEF Phases, files
  <2> QED
    BY <1>1, <1>4, <1>5, <2>2, <2>4, <2>5 DEF LoopInv, Running, EpollSound
<1> QED
  BY <1>8, <1>9

-----------------------------------------------------------------------------
(* The theorems. *)

LEMMA LoopStep ==
  ASSUME OneEventOnKqueue
  PROVE  LoopInv /\ [Next]_vars => LoopInv'
<1> SUFFICES ASSUME LoopInv, [Next]_vars PROVE LoopInv'
  OBVIOUS
<1>1. CASE UNCHANGED vars
  BY <1>1, StutterStep
<1>2. CASE \E fd \in FD, e \in Events : Arrive(fd, e)
  BY <1>2, ArriveStep
<1>3. CASE Poll(TRUE) \/ Poll(FALSE)
  BY <1>3, PollStep
<1>4. CASE BeginApply \/ Return \/ PassDone
  BY <1>4, ReturnStep
<1>5. ASSUME NEW fd \in FD, Apply(fd) \/ DelApplied(fd) \/ Call(fd) \/ PassOver(fd)
      PROVE  LoopInv'
  BY <1>5, ApplyStep, DelAppliedStep, CallStep, PassOverStep
<1>6. CASE Client
  BY <1>6, AcceptStep, AddStep, SetEventsStep, DelStep, CloseStep, CloseConnStep DEF Client
<1> QED
  BY <1>1, <1>2, <1>3, <1>4, <1>5, <1>6 DEF Next, Loop

\* Whatever the client does with its descriptors, LoopInv holds.
THEOREM LoopSafe ==
  ASSUME OneEventOnKqueue
  PROVE  Spec => []LoopInv
<1>1. Init => LoopInv
  BY InitLoop
<1>2. LoopInv /\ [Next]_vars => LoopInv'
  BY LoopStep
<1> QED
  BY <1>1, <1>2, PTL DEF Spec

\* The variables of every backend keep their types.
THEOREM LoopTypeCorrect ==
  ASSUME OneEventOnKqueue
  PROVE  Spec => []TypeOK
<1>1. LoopInv => TypeOK
  BY DEF LoopInv
<1> QED
  BY <1>1, LoopSafe, PTL

\* picoev_set_events: once no change of a descriptor waits, the kernel watches exactly
\* what its slot asks for.
THEOREM KernelWatchesAsked ==
  ASSUME OneEventOnKqueue
  PROVE  Spec => []KernelWatches
<1>1. LoopInv => KernelWatches
  <2> SUFFICES ASSUME LoopInv, backend # "select", NEW fd \in active,
                      Settled(fd), events[fd] # {}
               PROVE  watch[fd] = events[fd]
    BY DEF KernelWatches
  <2>1. CASE backend = "epoll"
    BY <2>1 DEF LoopInv, EpollSound
  <2>2. CASE backend = "kqueue"
    <3>1. fd \in open \ Changed /\ fd \in FD /\ events[fd] \subseteq Events /\ watch[fd] \subseteq Events
      BY DEF LoopInv, TypeOK, Settled, Changed
    <3>2. Sent(fd)
      BY <2>2, <3>1 DEF LoopInv, KqueueSound, KqueueFd
    <3>3. \A op \in {"disable", "enable"}, f \in Events : ~ Told(changelist, fd, op, f)
      BY DEF Settled, Told, Change
    <3>4. \A f \in Events : f \in watch[fd] <=> f \in events[fd]
      BY <3>2, <3>3 DEF Sent
    <3> QED
      BY <3>1, <3>4
  <2> QED
    BY <2>1, <2>2, BackendsAssumption DEF LoopInv, TypeOK
<1> QED
  BY <1>1, LoopSafe, PTL

\* The list of picoev_kqueue.c: each changed descriptor is on the one way from the
\* head, with the events that the kernel still has.
THEOREM ChangeListHolds ==
  ASSUME OneEventOnKqueue
  PROVE  Spec => []ChangeListSound
<1>1. LoopInv => ChangeListSound
  BY DEF LoopInv, Phases, KqueueSound, KqueueFd, ChangeListSound, Changed
<1> QED
  BY <1>1, LoopSafe, PTL

\* No system call of a backend fails its assertion, and apply_pending_changes never
\* writes past loop->changelist, however small it is.
THEOREM NoAssertionFails ==
  ASSUME OneEventOnKqueue
  PROVE  Spec => []AssertionsHold
<1>1. LoopInv => AssertionsHold
  BY DEF LoopInv, AssertionsHold
<1> QED
  BY <1>1, LoopSafe, PTL

\* A callback is called with events that its slot asks for, unless the slot changed
\* while the pass held an event of it.
THEOREM CallbacksAsked ==
  ASSUME OneEventOnKqueue
  PROVE  Spec => CallbackAsked
<1> DEFINE Fair == current' # None /\ current = None /\ current' \notin touched
                     => revents' \subseteq events[current']
<1>1. LoopInv /\ [Next]_vars => [Fair]_vars
  <2> SUFFICES ASSUME LoopInv, Next, current' # None, current = None,
                      current' \notin touched
               PROVE  revents' \subseteq events[current']
    OBVIOUS
  <2>1. ASSUME NEW fd \in FD, Call(fd)
        PROVE  revents' \subseteq events[current']
    <3>1. current' = fd /\ revents' \subseteq batch[fd] /\ Calls(fd)
      BY <2>1 DEF Call, Reported
    <3>2. fd \in active /\ (backend = "epoll" => events[fd] # {})
      BY <3>1 DEF Calls, SelectCalls, EpollCalls, KqueueCalls
    <3> QED
      BY <3>1, <3>2 DEF LoopInv, BatchAsked
  <2>2. CASE \/ \E fd \in FD, e \in Events : Arrive(fd, e)
             \/ \E answer \in BOOLEAN : Poll(answer)
             \/ BeginApply \/ PassDone \/ Client
             \/ \E fd \in FD : Apply(fd) \/ DelApplied(fd) \/ PassOver(fd)
    BY <2>2 DEF Arrive, Poll, BeginApply, PassDone, Client, Accept, Add, SetEvents, Del, Close,
                CloseConn, Apply, DelApplied, PassOver, calling
  <2>3. CASE Return
    BY <2>3 DEF Return
  <2> QED
    BY <2>1, <2>2, <2>3 DEF Next, Loop
<1> QED
  BY <1>1, LoopSafe, PTL DEF Spec, CallbackAsked
=============================================================================
