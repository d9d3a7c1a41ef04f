------------------------------ MODULE GameLoop ------------------------------
(***************************************************************************)
(* The pulse of the server (comm.cpp game_loop): select and accept, a walk *)
(* over the descriptors that reads and obeys one line of each, the         *)
(* updates, a walk that writes.  Both walks go through one global, d_next, *)
(* because whatever happens to a descriptor may close any other: commands, *)
(* a link that is lost, and an output buffer that runs over, which closes  *)
(* its descriptor from within write_to_buffer, in the middle of whatever   *)
(* was being said.  Who snoops gets a copy of what is written, so closing  *)
(* goes along the snoopers.  Each descriptor has a socket and, until its   *)
(* ident question (id.cpp) is settled, another one.                        *)
(*                                                                         *)
(* One action is one turn of a walk.  Out of the model: the contents of    *)
(* lines and buffers (output is counted in blocks), the bodies and files   *)
(* (module Sessions), the pager, the counters that time a connection out.  *)
(***************************************************************************)
EXTENDS Integers, Sequences, FiniteSets, FiniteSetsExt, Functions

CONSTANTS
    Descs,        \* memory for descriptors
    Null,
    Fds,          \* the numbers sockets get
    Limit,        \* blocks an output buffer holds (64 000 bytes)
    MaxAtimes,    \* ident attempts (20)
    Above         \* <<c, v>>: c may be trusted more than v, at some time

ASSUME DescsAssumption == Null \notin Descs
ASSUME FdsAssumption == Fds \subseteq Nat \ {0}
ASSUME LimitAssumption == Limit \in Nat \ {0, 1} /\ MaxAtimes \in Nat

VARIABLES
    desc,      \* the descriptors
    list,      \* first_descriptor ... last_descriptor
    next,      \* d_next
    phase,     \* where the loop is
    polled,    \* the sockets the last select was asked about
    turn,      \* history: who is there and had a turn in this walk
    open,      \* the sockets the process has open
    lost,      \* sockets of connections that were forgotten
    wild       \* a freed descriptor was used

loopVars == <<desc, list, next, phase, polled, turn, open, lost, wild>>

Phases == {"poll", "ipv4", "ipv6", "input", "update", "output", "exited"}

\* auth: "off" auth_fd is -1; "write" FLAG_WRAUTH; "read" the question is sent.
\* tries: how often it may still fail (20 - atimes), 0 once the user is known.
Unused == [in |-> FALSE, fd |-> 0, auth |-> "off", authfd |-> 0, tries |-> MaxAtimes,
           playing |-> FALSE, out |-> 0, fcommand |-> FALSE, snoop |-> Null]

LoopTypeOK ==
    /\ desc \in [Descs -> [in : BOOLEAN, fd : Fds \cup {0}, auth : {"off", "write", "read"},
                           authfd : Fds \cup {0}, tries : 0 .. MaxAtimes, playing : BOOLEAN,
                           out : 0 .. Limit - 1, fcommand : BOOLEAN,
                           snoop : Descs \cup {Null}]]
    /\ list \in Seq(Descs) /\ Range(list) = {d \in Descs : desc[d].in} /\ IsInjective(list)
    /\ next \in Descs \cup {Null}
    /\ phase \in Phases
    /\ polled \subseteq Fds /\ open \subseteq Fds /\ lost \subseteq Fds
    /\ turn \subseteq Descs
    /\ wild \in BOOLEAN

LoopInit ==
    /\ desc = [d \in Descs |-> Unused]
    /\ list = <<>> /\ next = Null /\ phase = "poll"
    /\ polled = {} /\ turn = {} /\ open = {} /\ lost = {} /\ wild = FALSE

-----------------------------------------------------------------------------
(* Descriptors, on a state s of [desc, list, next, open, wild].            *)

Now == [desc |-> desc, list |-> list, next |-> next, open |-> open, wild |-> wild]

Becomes(s) ==
    /\ desc' = s.desc /\ list' = s.list /\ next' = s.next
    /\ open' = s.open /\ wild' = s.wild

\* d and whoever comes after it.
From(l, d) == {l[i] : i \in {i \in DOMAIN l : \E j \in 1 .. i : l[j] = d}}

\* Whoever of S comes first.
FirstOf(l, S) == IF S = {} THEN Null ELSE CHOOSE d \in S : S \subseteq From(l, d)

First(l) == FirstOf(l, Range(l))

\* d->next
After(l, d) == FirstOf(l, From(l, d) \ {d})

\* A list without those of C: the k-th left has k of them up to its place.
Without(l, C) ==
    LET K == {i \in DOMAIN l : l[i] \notin C}
        Nth(k) == CHOOSE i \in K : Cardinality({j \in K : j <= i}) = k
    IN [k \in 1 .. Cardinality(K) |-> l[Nth(k)]]

SocketsOf(s, d) == {s.desc[d].fd, s.desc[d].authfd} \ {0}

\* The system hands out the lowest number that is free.
Free(s) == Fds \ s.open
Lowest(s) == Min(Free(s))

\* Mutant: the walk goes on to the descriptor that was closed.
UnlinkOnly(s, C) ==
    [s EXCEPT !.list = Without(@, C), !.open = @ \ UNION {SocketsOf(s, d) : d \in C},
              !.desc = [e \in Descs |->
                  IF e \in C THEN Unused
                  ELSE IF s.desc[e].snoop \in C THEN [s.desc[e] EXCEPT !.snoop = Null]
                  ELSE s.desc[e]]]

\* Mutant: the socket of the question stays open.
UnlinkLink(s, C) ==
    [s EXCEPT !.next = FirstOf(s.list, From(s.list, @) \ C),
              !.list = Without(@, C), !.open = @ \ {s.desc[d].fd : d \in C},
              !.desc = [e \in Descs |->
                  IF e \in C THEN Unused
                  ELSE IF s.desc[e].snoop \in C THEN [s.desc[e] EXCEPT !.snoop = Null]
                  ELSE s.desc[e]]]

\* The end of close_socket for each of C: out of the list, and d_next with it;
\* nobody is snooped by them any more; their sockets are closed, and they freed.
Unlink(s, C) ==
    [s EXCEPT !.next = FirstOf(s.list, From(s.list, @) \ C),
              !.list = Without(@, C), !.open = @ \ UNION {SocketsOf(s, d) : d \in C},
              !.desc = [e \in Descs |->
                  IF e \in C THEN Unused
                  ELSE IF s.desc[e].snoop \in C THEN [s.desc[e] EXCEPT !.snoop = Null]
                  ELSE s.desc[e]]]

\* d and whoever one comes to from there, until Null.
Along(d, to) ==
    {e \in Descs : \A C \in SUBSET Descs :
        (d = Null \/ d \in C) /\ (\A c \in C : to[c] \in C \cup {Null}) => e \in C}

\* Mutant: the buffer is filled over its end.
WriteOver(s, d, k) == IF d = Null THEN s ELSE [s EXCEPT !.desc[d].out = Max({1, @ + k})]

\* write_to_buffer: a text for d that needs k more blocks than are begun.  A
\* buffer that runs over closes its descriptor, which is told to whoever snoops
\* it, in the same number of blocks; of the text nothing is left.
WriteTo(s, d, k) ==
    LET Over(e) == s.desc[e].out + k >= Limit
        told == Along(d, [e \in Descs |-> IF Over(e) THEN s.desc[e].snoop ELSE Null])
        Heard(e) == IF e \in told THEN [s.desc[e] EXCEPT !.out = Max({1, @ + k})] ELSE s.desc[e]
    IN Unlink([s EXCEPT !.desc = [e \in Descs |-> IF Over(e) THEN s.desc[e] ELSE Heard(e)]],
              {e \in told : Over(e)})

\* flush_buffer; `own`: it writes to the buffer of d itself first, a prompt or
\* the condition of an opponent.  When that runs over, d is freed under its
\* hands.
Flush(s, d, own, k) ==
    LET Copied(t) ==
            IF ~ t.desc[d].in THEN [t EXCEPT !.wild = TRUE]
            ELSE IF t.desc[d].out = 0 THEN t
            ELSE [WriteTo(t, t.desc[d].snoop, k) EXCEPT !.desc[d].out = 0]
    IN Copied(IF own THEN WriteTo(s, d, k) ELSE s)

\* close_socket: what is left is flushed, unless forced; the snooper is told.
Close(s, d, force, own, k) ==
    LET Told(t) == IF t.wild THEN t ELSE Unlink(WriteTo(t, t.desc[d].snoop, k), {d})
    IN Told(IF force \/ s.desc[d].out = 0 THEN s ELSE Flush(s, d, own, k))

\* Texts that fit and texts that do not.
Lengths == {0, 1}

\* Whether he is fighting.
Condition(s, d) == IF s.desc[d].playing THEN BOOLEAN ELSE {FALSE}

Closings(s, d, force) == {Close(s, d, force, own, k) : own \in Condition(s, d), k \in Lengths}

Writings(s, d) == {WriteTo(s, d, k) : k \in Lengths}

-----------------------------------------------------------------------------
(* The ident question.                                                     *)

Fewer(n) == IF n > 0 THEN n - 1 ELSE 0

\* The end of a question that failed, and of one that was answered.
Failed(s, d) ==
    [s EXCEPT !.desc[d].auth = "off", !.desc[d].authfd = 0, !.desc[d].tries = Fewer(@),
              !.open = @ \ {s.desc[d].authfd}]
Answered(s, d) == [Failed(s, d) EXCEPT !.desc[d].tries = 0]

\* start_auth, with a number for the socket: connecting, or refused at once.
StartAuth(s, d) ==
    {[s EXCEPT !.desc[d].auth = "write", !.desc[d].authfd = Lowest(s),
               !.open = @ \cup {Lowest(s)}],
     [s EXCEPT !.desc[d].tries = Fewer(@)]}

NeedsAuth(s, d) ==
    s.desc[d].auth = "off" /\ s.desc[d].tries > 0

\* read_auth: more is to come, or the end, with a name or as "UNKNOWN".
ReadAuth(s, d) == {s, Answered(s, d)}

SendAuth(s, d) == {[s EXCEPT !.desc[d].auth = "read"], Failed(s, d)}

\* A socket the select was asked about is ready or is not.  (What is asked is
\* the number: a socket opened since under the number of a closed one counts.)
Answers(s, d) ==
    IF s.desc[d].auth = "off" \/ s.desc[d].authfd \notin polled THEN {s}
    ELSE {s} \cup ReadAuth(s, d) \cup (IF s.desc[d].auth = "write" THEN SendAuth(s, d) ELSE {})

-----------------------------------------------------------------------------
(* select, accept                                                          *)

Continue(p) ==
    /\ phase' = p
    /\ turn' = {}
    /\ next' = IF p \in {"input", "output"} THEN First(list') ELSE Null

Poll ==
    /\ phase = "poll"
    /\ polled' = UNION {SocketsOf(Now, d) : d \in Range(list)}
    /\ UNCHANGED <<desc, list, open, lost, wild>>
    /\ Continue("ipv4")

Afterwards == IF phase = "ipv4" THEN "ipv6" ELSE "input"

Nobody ==
    /\ phase \in {"ipv4", "ipv6"}
    /\ UNCHANGED <<desc, list, polled, open, lost, wild>>
    /\ Continue(Afterwards)

\* Linked at the end and greeted.
Linked(d) ==
    [desc |-> [desc EXCEPT ![d] = [Unused EXCEPT !.in = TRUE, !.fd = Lowest(Now), !.out = 1]],
     list |-> Append(list, d), next |-> next, open |-> open \cup {Lowest(Now)}, wild |-> wild]

\* new_descriptor, and its question; without a number for the socket of the
\* question nonblock exits.
Accept(d) ==
    /\ phase \in {"ipv4", "ipv6"}
    /\ ~ desc[d].in /\ Free(Now) # {}
    /\ IF Free(Linked(d)) = {}
       THEN /\ phase' = "exited"
            /\ UNCHANGED <<desc, list, next, turn, open, wild>>
       ELSE /\ \E s \in StartAuth(Linked(d), d) : desc' = s.desc /\ open' = s.open
            /\ list' = Linked(d).list
            /\ Continue(Afterwards)
            /\ UNCHANGED wild
    /\ UNCHANGED <<polled, lost>>

\* The name of the host is looked up for longer than the alarm: its handler
\* runs the loop from within and never returns, the connection is in nobody's
\* list.  The signal is blocked from then on.
Alarm ==
    /\ phase \in {"ipv4", "ipv6"}
    /\ lost = {} /\ Free(Now) # {}
    /\ lost' = {Lowest(Now)} /\ open' = open \cup lost'
    /\ UNCHANGED <<desc, list, polled, wild>>
    /\ Continue("poll")

-----------------------------------------------------------------------------
(* The turn of d in process_input.                                         *)

\* do_disconnect, forceclose, a second login under the name, a purge
Disconnects(s, e) == Closings(s, e, FALSE)

\* A login line: it may lead into the game; the handler writes on when the
\* buffer ran over, and when new players are not let in.
Logins(s, d) ==
    LET Said(t) == IF t.desc[d].in THEN {t, [t EXCEPT !.desc[d].playing = TRUE]}
                   ELSE {[t EXCEPT !.wild = TRUE]}
    IN {[t EXCEPT !.wild = TRUE] : t \in Closings(s, d, FALSE)}
         \cup Closings(s, d, FALSE)
         \cup UNION {Said(t) : t \in Writings(s, d)}

\* Mutant: nobody looks whether the victim is watching.
AnyTarget(s, d, v) == v # d /\ s.desc[v].playing /\ s.desc[v].snoop = Null /\ <<d, v>> \in Above

\* Who gets copies of what d sees, and copies of those.
Watchers(s, d) == Along(s.desc[d].snoop, [e \in Descs |-> s.desc[e].snoop])

\* do_snoop
MaySnoop(s, d, v) ==
    /\ v # d /\ s.desc[v].playing /\ s.desc[v].snoop = Null
    /\ <<d, v>> \in Above
    /\ v \notin Watchers(s, d)

\* A command: something is said to somebody, snooping, a connection is closed,
\* one's own by quitting.
Commands(s, d) ==
    {[s EXCEPT !.desc[v].snoop = d] : v \in {v \in Range(s.list) : MaySnoop(s, d, v)}}
    \cup {[s EXCEPT !.desc = [v \in Descs |->
             IF s.desc[v].snoop = d THEN [s.desc[v] EXCEPT !.snoop = Null] ELSE s.desc[v]]]}
    \cup UNION {Writings(s, e) \cup Disconnects(s, e) : e \in Range(s.list)}

Obeys(s, d) ==
    LET t == [s EXCEPT !.desc[d].fcommand = TRUE]
    IN IF s.desc[d].playing THEN Commands(t, d) ELSE Logins(t, d)

\* The link broke, was idle for too long, or is at its end.
Dropped(s, d) == Closings([s EXCEPT !.desc[d].out = 0], d, TRUE)

\* The ident question, then the line that was read, if any.
Served(s, d) ==
    UNION {UNION {Obeys(u, d) \cup {u} : u \in Answers(t, d)} :
               t \in IF NeedsAuth(s, d) THEN StartAuth(s, d) ELSE {s}}

Step(s) == [s EXCEPT !.next = After(s.list, s.next)]

TakeInput(d) ==
    /\ phase = "input" /\ next = d /\ d # Null
    /\ LET s == [Step(Now) EXCEPT !.desc[d].fcommand = FALSE] IN
        \/ /\ \E t \in Dropped(s, d) : Becomes(t)
           /\ UNCHANGED phase
        \/ /\ NeedsAuth(s, d) /\ Free(s) = {}
           /\ phase' = "exited"
           /\ UNCHANGED <<desc, list, next, open, wild>>
        \/ /\ NeedsAuth(s, d) => Free(s) # {}
           /\ \E t \in Served(s, d) : Becomes(t)
           /\ UNCHANGED phase
    /\ turn' = (turn \cup {d}) \cap Range(list')
    /\ UNCHANGED <<polled, lost>>

\* (Of the answers of the select only those about the links are still used.)
InputDone ==
    /\ phase = "input" /\ next = Null
    /\ polled' = polled \cap {desc[d].fd : d \in Range(list)}
    /\ UNCHANGED <<desc, list, open, lost, wild>>
    /\ Continue("update")

-----------------------------------------------------------------------------
(* update_handler: whatever goes on without a command says something to    *)
(* somebody, or takes him out of the game.                                 *)

Happen(d) ==
    /\ phase = "update" /\ desc[d].in
    /\ \E s \in Writings(Now, d) \cup (IF desc[d].playing THEN Closings(Now, d, FALSE) ELSE {}) :
          Becomes(s)
    /\ UNCHANGED <<phase, polled, turn, lost>>

UpdateDone ==
    /\ phase = "update"
    /\ UNCHANGED <<desc, list, polled, open, lost, wild>>
    /\ Continue("output")

-----------------------------------------------------------------------------
(* The turn of d in process_output.  (fcommand is of no use afterwards.)   *)

\* Who plays gets a prompt.
Flushes(s, d) == {Flush(s, d, s.desc[d].playing, k) : k \in Lengths}

\* A write that fails closes the link.
Writes(s, d) ==
    Flushes(s, d)
    \cup {IF t.wild \/ (s.desc[d].out = 0 /\ ~ s.desc[d].playing) THEN t
          ELSE Close(t, d, FALSE, FALSE, k) : t \in Flushes(s, d), k \in Lengths}

TakeOutput(d) ==
    /\ phase = "output" /\ next = d /\ d # Null
    /\ LET s == [Step(Now) EXCEPT !.desc[d].fcommand = FALSE] IN
        \/ Becomes(s)
        \/ /\ desc[d].fcommand \/ desc[d].out > 0
           /\ desc[d].fd \in polled
           /\ \E t \in Writes(s, d) : Becomes(t)
    /\ turn' = (turn \cup {d}) \cap Range(list')
    /\ UNCHANGED <<phase, polled, lost>>

OutputDone ==
    /\ phase = "output" /\ next = Null
    /\ polled' = {}
    /\ UNCHANGED <<desc, list, open, lost, wild>>
    /\ Continue("poll")

-----------------------------------------------------------------------------
Loop ==
    \/ Poll \/ Nobody \/ Alarm \/ InputDone \/ UpdateDone \/ OutputDone
    \/ \E d \in Descs : Accept(d) \/ TakeInput(d) \/ Happen(d) \/ TakeOutput(d)

\* After a freed descriptor was used anything may happen: the model stops.
LoopNext == ~ wild /\ Loop

LoopSpec == LoopInit /\ [][LoopNext]_loopVars

-----------------------------------------------------------------------------
(* Properties.                                                             *)

\* Safety: whatever is closed by whom in the middle of a walk, everybody who
\* is still there has his one turn in it: had it, or is ahead.
OneTurnEach ==
    ~ wild /\ phase \in {"input", "output"} =>
        /\ next # Null => desc[next].in
        /\ From(list, next) = {d \in Descs : desc[d].in} \ turn

\* Safety: nobody snoops, through however many others, himself, and whoever
\* snoops is there: closing along the snoopers comes to an end, and what is
\* copied does not come back.
SnoopersAhead ==
    ~ wild => \A d \in Descs :
        /\ desc[d].snoop # Null => desc[desc[d].snoop].in
        /\ desc[d].in => d \notin Watchers(Now, d)

\* Safety: every open socket belongs to one descriptor, as its link or for
\* its question, and to the list; none is left behind but the one of the
\* connection the alarm made the server forget.
SocketsOwned ==
    ~ wild =>
        /\ open \ lost = UNION {SocketsOf(Now, d) : d \in Range(list)}
        /\ \A d \in Range(list) :
            /\ desc[d].fd \notin {0, desc[d].authfd}
            /\ SocketsOf(Now, d) \cap lost = {}
            /\ \A e \in Range(list) \ {d} : SocketsOf(Now, d) \cap SocketsOf(Now, e) = {}

\* What an assertion of send_to_char_color says: a buffer that ran over and
\* closed its descriptor is noticed before it is used again.
FreedUnused == ~ wild
=============================================================================
