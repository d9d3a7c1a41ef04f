------------------------------ MODULE Sessions ------------------------------
(***************************************************************************)
(* Connections and the characters they play (comm.cpp, conn.cpp, the ends  *)
(* of save.cpp, handler.cpp, act_wiz.cpp, update.cpp and db.cpp that touch *)
(* both): logging in, taking over an old link, coming back to a link-dead  *)
(* body, playing another body, leaving, dying, the idle clock, copyover.   *)
(*                                                                         *)
(* A character loaded from a player file is a body; it is named after the  *)
(* connection it was loaded on, which loads at most one at a time.  It is  *)
(* in the game once it is in `chars`.  Every handler is one action.        *)
(*                                                                         *)
(* Four things the code does not cope with: an immortal goes into the body *)
(* of one who plays another; such a body dies or is idle for too long; its *)
(* owner logs in while an immortal plays it; somebody mistypes the         *)
(* repetition when he changes his password.  They happen here as they do   *)
(* there, and `amiss` remembers, until the server is started again, that   *)
(* one did.                                                                *)
(*                                                                         *)
(* Abstracted: the passwords (a wrong one repeats the question or closes   *)
(* the connection), bans, denials and the wizlock (they close it), the     *)
(* steps of the creation of a character, the editors (one mode), rooms and *)
(* possessions.  Left out: snooping, loadup, renaming, the polymorph flag. *)
(***************************************************************************)
EXTENDS Integers, Sequences, FiniteSets

CONSTANTS
  Conns,      \* connections that may ever be made
  Mobs,       \* bodies of the game's own
  Names,      \* names of players
  NoName, NoBody, NoConn,
  Greater,    \* of LEVEL_GREATER: may switch into players
  Suicides    \* may die for good, and their player file with them

ASSUME SessionsAssumption ==
  /\ IsFiniteSet(Conns) /\ IsFiniteSet(Mobs)
  /\ Conns \cap Mobs = {}
  /\ NoName \notin Names /\ NoConn \notin Conns /\ NoBody \notin Conns \cup Mobs
  /\ Greater \cup Suicides \subseteq Names

Bodies == Conns \cup Mobs

VARIABLES
  conn,   \* DESCRIPTOR_DATA: its state, its two bodies, has it an edited thing
  descs,  \* first_descriptor, in order
  body,   \* CHAR_DATA: whose it is, its desc and switched pointers
  chars,  \* first_char, in order
  file,   \* the names that have a player file: is it whole, or half a player's
  amiss   \* history: since the start something happened the code has no answer to

vars == <<conn, descs, body, chars, file, amiss>>

LoggingIn == {"name", "newname", "password", "confirm", "creating", "motd"}

\* connected >= CON_PLAYING
InGame == {"playing", "mode", "changing"}

Closed == [state |-> "none", character |-> NoBody, original |-> NoBody, work |-> FALSE]

Freed == [owner |-> NoName, desc |-> NoConn, switched |-> NoBody]

TypeOK ==
  /\ conn \in [Conns -> [state : LoggingIn \cup InGame \cup {"none"},
                         character : Bodies \cup {NoBody},
                         original : Bodies \cup {NoBody},
                         work : BOOLEAN]]
  /\ descs \in Seq(Conns)
  /\ body \in [Bodies -> [owner : Names \cup {NoName},
                          desc : Conns \cup {NoConn},
                          switched : Bodies \cup {NoBody}]]
  /\ chars \in Seq(Bodies)
  /\ DOMAIN file \subseteq Names /\ \A n \in DOMAIN file : file[n] \in {"whole", "half"}
  /\ amiss \in BOOLEAN

Elements(s) == {s[i] : i \in DOMAIN s}

\* Those of S on a list, in its order: the k-th is the one with k of them up to
\* its place.
Only(s, S) ==
  LET K == {i \in DOMAIN s : s[i] \in S}
      Nth(k) == CHOOSE i \in K : Cardinality({j \in K : j <= i}) = k
  IN [k \in 1..Cardinality(K) |-> s[Nth(k)]]

Without(s, x) == Only(s, Elements(s) \ {x})

\* The mobs as the areas load them.
World == CHOOSE s \in [1..Cardinality(Mobs) -> Mobs] : Elements(s) = Mobs

Init ==
  /\ conn = [d \in Conns |-> Closed]
  /\ descs = <<>>
  /\ body = [b \in Bodies |-> Freed]
  /\ chars = World
  /\ \E known \in SUBSET Names : file = [n \in known |-> "whole"]
  /\ amiss = FALSE

---------------------------------------------------------------------------
(* What the handlers are made of, on a state s of the pointers.            *)

Now == [conn |-> conn, descs |-> descs, body |-> body, chars |-> chars]

Becomes(s) == conn' = s.conn /\ descs' = s.descs /\ body' = s.body /\ chars' = s.chars

\* Mutant: the body one plays is taken for one's own.
OwnAsPlayed(d) == conn[d].character

\* CH(d): the player's own body.
Own(d) == IF conn[d].original # NoBody THEN conn[d].original ELSE conn[d].character

NameOn(d) == IF Own(d) = NoBody THEN NoName ELSE body[Own(d)].owner

IsPlayer(b) == b \in Conns

\* Its player plays another body.
Away(b) == \E e \in Conns : conn[e].original = b

\* Somebody plays it who has another body of his own.
Possessed(b) == \E e \in Conns : conn[e].character = b /\ conn[e].original # NoBody

\* do_return: the one who plays c goes back to his own body.
DoReturn(s, c) ==
  LET d == s.body[c].desc IN
  IF d = NoConn \/ s.conn[d].original = NoBody THEN s
  ELSE [s EXCEPT !.conn[d].character = s.conn[d].original,
                 !.conn[d].original = NoBody,
                 !.body = [@ EXCEPT ![s.conn[d].original].desc = d,
                                    ![s.conn[d].original].switched = NoBody,
                                    ![c].desc = NoConn]]

\* Mutant: the connection of a switched player closes without a do_return.
CloseSwitched(s, d) ==
  LET ch == s.conn[d].character IN
  [s EXCEPT !.conn[d] = Closed,
            !.descs = Without(@, d),
            !.body = IF ch = NoBody THEN @
                     ELSE IF s.conn[d].state \in InGame THEN [@ EXCEPT ![ch].desc = NoConn]
                     ELSE [@ EXCEPT ![ch] = Freed]]

\* close_socket: a body in the game stays there, link-dead; one that is still
\* logging in is freed.
CloseSocket(s, d) ==
  LET r == IF s.conn[d].original # NoBody THEN DoReturn(s, s.conn[d].character) ELSE s
      ch == r.conn[d].character
  IN [r EXCEPT !.conn[d] = Closed,
               !.descs = Without(@, d),
               !.body = IF ch = NoBody THEN @
                        ELSE IF r.conn[d].state \in InGame THEN [@ EXCEPT ![ch].desc = NoConn]
                        ELSE [@ EXCEPT ![ch] = Freed]]

\* extract_char with fPull: out of the game, and its connection with it.
Extract(s, b) ==
  LET r == DoReturn(s, b)
      d == r.body[b].desc
      t == [r EXCEPT !.chars = Without(@, b)]
      u == IF d = NoConn \/ t.conn[d].character # b THEN t
           ELSE CloseSocket([t EXCEPT !.conn[d].character = NoBody], d)
  IN [u EXCEPT !.body[b] = Freed]

\* The body loaded on d is freed for one that is in the game.
Adopt(s, d, ch) ==
  [s EXCEPT !.conn[d].character = ch, !.body = [@ EXCEPT ![d] = Freed, ![ch].desc = d]]

\* The other connections of the name n, in the order of the list.
Rivals(d, n) == Only(descs, {e \in Conns \ {d} : NameOn(e) = n})

---------------------------------------------------------------------------
(* Logging in.                                                             *)

\* new_descriptor
Connect(d) ==
  /\ conn[d] = Closed /\ d \notin Elements(chars)
  /\ conn' = [conn EXCEPT ![d].state = "name"]
  /\ descs' = Append(descs, d)
  /\ UNCHANGED <<body, chars, file, amiss>>

\* nanny_get_name: "nowy"
AskForNew(d) ==
  /\ conn[d].state = "name"
  /\ conn' = [conn EXCEPT ![d].state = "newname"]
  /\ UNCHANGED <<descs, body, chars, file, amiss>>

\* Mutant: nobody asks whether the name is being used for a login.
NoBusyCheck(d, n) == TRUE

\* check_playing with !kick: BERR when the first rival is logging in.
NameFree(d, n) == Rivals(d, n) # <<>> => conn[Head(Rivals(d, n))].state \in InGame

\* nanny_get_name: a name that exists, or a new one.  (Any other answer, or a
\* body that is refused, is freed at once and the question is put again.)
EnterName(d, n) ==
  LET known == n \in DOMAIN file \/ \E b \in Elements(chars) : body[b].owner = n IN
  /\ NameFree(d, n)
  /\ \/ conn[d].state = "name" /\ known
        /\ conn' = [conn EXCEPT ![d].state = "password", ![d].character = d]
     \/ conn[d].state = "newname" /\ ~known
        /\ conn' = [conn EXCEPT ![d].state = "confirm", ![d].character = d]
  /\ body' = [body EXCEPT ![d] = [owner |-> n, desc |-> d, switched |-> NoBody]]
  /\ UNCHANGED <<descs, chars, file, amiss>>

\* nanny_confirm_new_name
ConfirmName(d, yes) ==
  /\ conn[d].state = "confirm"
  /\ IF yes
     THEN conn' = [conn EXCEPT ![d].state = "creating"] /\ UNCHANGED body
     ELSE conn' = [conn EXCEPT ![d].state = "newname", ![d].character = NoBody]
          /\ body' = [body EXCEPT ![d] = Freed]
  /\ UNCHANGED <<descs, chars, file, amiss>>

\* The rest of the creation, up to nanny_confirm_new_password
Create(d) ==
  /\ conn[d].state = "creating"
  /\ conn' = [conn EXCEPT ![d].state = "motd"]
  /\ UNCHANGED <<descs, body, chars, file, amiss>>

\* The bodies in the game check_reconnect takes n back to.
LinkDead(n) == Only(chars, {b \in Bodies : body[b].owner = n /\ body[b].desc = NoConn})

\* nanny_get_old_password, the right one, when check_playing finds the name in
\* the game: the old link is closed and its body and its mode are taken over.
KickOff(d) ==
  LET n == NameOn(d)
      e == Head(Rivals(d, n))
      ch == Own(e)
      s == Adopt(CloseSocket(Now, e), d, ch)
      t == IF s.body[ch].switched # NoBody THEN DoReturn(s, s.body[ch].switched) ELSE s
  IN /\ conn[d].state = "password"
     /\ Rivals(d, n) # <<>> /\ conn[e].state \in InGame
     /\ Becomes([t EXCEPT !.body[ch].switched = NoBody, !.conn[d].state = conn[e].state])
     /\ UNCHANGED <<file, amiss>>

\* The same when check_reconnect finds a link-dead body.
Reconnect(d) ==
  LET n == NameOn(d)
      ch == Head(LinkDead(n))
  IN /\ conn[d].state = "password"
     /\ Rivals(d, n) = <<>> /\ LinkDead(n) # <<>>
     /\ IF body[ch].switched # NoBody
        THEN Becomes(CloseSocket(Now, d))
        ELSE Becomes([Adopt(Now, d, ch) EXCEPT !.conn[d].state = "playing"])
     /\ UNCHANGED <<file, amiss>>

\* The same when there is neither: the character is loaded once more, whether
\* its file is still there or not, and whether an immortal plays its body or not.
Reload(d) ==
  LET n == NameOn(d) IN
  /\ conn[d].state = "password"
  /\ Rivals(d, n) = <<>> /\ LinkDead(n) = <<>>
  /\ conn' = [conn EXCEPT ![d].state = "motd"]
  /\ amiss' = (amiss \/ \E b \in Elements(chars) : body[b].owner = n /\ Possessed(b))
  /\ UNCHANGED <<descs, body, chars, file>>

\* Mutant: the character is not added to the list.
EnterUnlisted(d) ==
  /\ conn[d].state = "motd"
  /\ conn' = [conn EXCEPT ![d].state = "playing"]
  /\ UNCHANGED <<descs, body, chars, file, amiss>>

\* nanny_read_motd: add_char, whether the character is in the game or not.
EnterGame(d) ==
  /\ conn[d].state = "motd"
  /\ conn' = [conn EXCEPT ![d].state = "playing"]
  /\ chars' = Append(chars, conn[d].character)
  /\ UNCHANGED <<descs, body, file, amiss>>

---------------------------------------------------------------------------
(* In the game.                                                            *)

\* The files after `what` is written to those of `names`; what was lost from a
\* file is not in the bodies loaded from it.
Written(names, what) ==
  [n \in DOMAIN file \cup names |->
     IF n \notin names \/ (n \in DOMAIN file /\ file[n] = "half") THEN file[n] ELSE what]

\* save_char_obj: a newcomer who is not authorized yet is not saved.
Saved(n) == file' = Written({n}, "whole") \/ (n \notin DOMAIN file /\ UNCHANGED file)

Playing(d) == conn[d].state = "playing"

\* A player's own command, in a player's body.
InBody(d) == Playing(d) /\ IsPlayer(conn[d].character)

\* Mutant: a mob is saved, under the name it does not have.
SaveBody(d) ==
  /\ Playing(d)
  /\ file' = Written({body[conn[d].character].owner}, "whole")
  /\ UNCHANGED <<conn, descs, body, chars, amiss>>

\* do_save, or the clock
Save(d) ==
  /\ InBody(d)
  /\ file' = Written({NameOn(d)}, "whole")
  /\ UNCHANGED <<conn, descs, body, chars, amiss>>

\* An editor, the exchange terminal, a renaming: what is edited hangs on the
\* descriptor.
StartMode(d) ==
  /\ InBody(d)
  /\ conn' = [conn EXCEPT ![d].state = "mode", ![d].work = TRUE]
  /\ UNCHANGED <<descs, body, chars, file, amiss>>

EndMode(d) ==
  /\ conn[d].state = "mode"
  /\ conn' = [conn EXCEPT ![d].state = "playing", ![d].work = FALSE]
  /\ UNCHANGED <<descs, body, chars, file, amiss>>

\* do_password, and nanny_confirm_new_pass_to_change: a mistyped repetition
\* goes on where a new character gets his password.
ChangePassword(d) ==
  /\ \/ InBody(d) /\ conn' = [conn EXCEPT ![d].state = "changing"] /\ UNCHANGED amiss
     \/ conn[d].state = "changing"
        /\ conn' = [conn EXCEPT ![d].state = "playing"] /\ UNCHANGED amiss
     \/ conn[d].state = "changing"
        /\ conn' = [conn EXCEPT ![d].state = "creating"] /\ amiss' = TRUE
  /\ UNCHANGED <<descs, body, chars, file>>

\* do_switch and spell_possess: a body nobody plays
Target(d, v) ==
  /\ v # conn[d].character
  /\ body[v].desc = NoConn
  /\ IsPlayer(v) => NameOn(d) \in Greater

Switch(d, v) ==
  LET ch == conn[d].character IN
  /\ Playing(d) /\ conn[d].original = NoBody
  /\ v \in Elements(chars) /\ Target(d, v)
  /\ conn' = [conn EXCEPT ![d].character = v, ![d].original = ch]
  /\ body' = [body EXCEPT ![v].desc = d, ![ch].desc = NoConn, ![ch].switched = v]
  /\ amiss' = (amiss \/ Away(v))
  /\ UNCHANGED <<descs, chars, file>>

\* do_return, and the end of possession
Return(d) ==
  /\ Playing(d) /\ conn[d].original # NoBody
  /\ Becomes(DoReturn(Now, conn[d].character))
  /\ UNCHANGED <<file, amiss>>

\* do_quit
Quit(d) ==
  /\ InBody(d)
  /\ Saved(NameOn(d))
  /\ Becomes(Extract(Now, conn[d].character))
  /\ UNCHANGED amiss

\* char_update: 15 ticks without a descriptor, link-dead or in another body
IdleOut(b) ==
  /\ b \in Elements(chars) /\ IsPlayer(b) /\ body[b].desc = NoConn
  /\ Saved(body[b].owner)
  /\ Becomes(Extract(Now, b))
  /\ amiss' = (amiss \/ Away(b))

\* raw_kill of a mob
MobDies(b) ==
  /\ b \in Elements(chars) /\ ~IsPlayer(b)
  /\ Becomes(Extract(Now, b))
  /\ UNCHANGED <<file, amiss>>

\* raw_kill of a player, and his suicide: destroy_char leaves the file of a
\* clone in its place, or none.
Die(b) ==
  /\ b \in Elements(chars) /\ IsPlayer(b)
  /\ \/ Saved(body[b].owner)
     \/ body[b].owner \in Suicides
        /\ file' = [n \in DOMAIN file \ {body[b].owner} |-> file[n]]
  /\ Becomes(Extract(Now, b))
  /\ amiss' = (amiss \/ Away(b))

---------------------------------------------------------------------------
(* Connections and the server.                                             *)

\* process_input, process_output: the link is lost, or idle for too long, or
\* the player is sent away; a body in the game is saved, a mob played is not,
\* nor is the body its player is away from.
Drop(d) ==
  /\ conn[d].state # "none"
  /\ IF conn[d].state \in InGame /\ IsPlayer(conn[d].character)
     THEN Saved(NameOn(d)) ELSE UNCHANGED file
  /\ Becomes(CloseSocket(Now, d))
  /\ UNCHANGED amiss

\* The connections copyover writes into its file, but those found lost then.
Kept(lost) == Only(descs, {d \in Conns \ lost : conn[d].state \in InGame})

\* copyover and copyover_recover: the others are thrown out, a new process
\* loads the names of those kept, the link-dead are not in it.
Copyover(lost) ==
  LET kept == Kept(lost) IN
  /\ conn' = [d \in Conns |-> IF d \in Elements(kept)
                              THEN [Closed EXCEPT !.state = "playing", !.character = d]
                              ELSE Closed]
  /\ descs' = kept
  /\ body' = [b \in Bodies |-> IF b \in Elements(kept)
                               THEN [owner |-> NameOn(b), desc |-> b, switched |-> NoBody]
                               ELSE Freed]
  /\ chars' = World \o kept
  /\ file' = Written({NameOn(d) : d \in Elements(Kept({}))}, "whole")
  /\ UNCHANGED amiss

\* copyover when the exec fails: those logging in are gone, the rest plays on.
CopyoverFails ==
  LET out == {d \in Elements(descs) : conn[d].state \notin InGame} IN
  /\ conn' = [d \in Conns |-> IF d \in out THEN Closed ELSE conn[d]]
  /\ descs' = Kept({})
  /\ body' = [b \in Bodies |-> IF \E d \in out : conn[d].character = b THEN Freed ELSE body[b]]
  /\ file' = Written({NameOn(d) : d \in Elements(Kept({}))}, "whole")
  /\ UNCHANGED <<chars, amiss>>

\* What deal_with_crash saves under the name n: the body of its last connection.
Rescued(n) ==
  LET own == {i \in DOMAIN descs : NameOn(descs[i]) = n}
      last == CHOOSE i \in own : \A j \in own : j <= i
  IN IF conn[descs[last]].state \in InGame \cup {"motd"} THEN "whole" ELSE "half"

---------------------------------------------------------------------------
\* A body still allocated: in the game, or loaded for a login.
Live(b) == b \in Elements(chars) \/ (IsPlayer(b) /\ body[b].owner # NoName)

\* Pointers to freed bodies, a body linked twice or freed in the list: what
\* the program does from there is undefined, and the model waits for its end.
Broken ==
  \/ \E d \in Elements(descs) : \E b \in {conn[d].character, conn[d].original} \ {NoBody} : ~Live(b)
  \/ \E b \in Elements(chars) : IsPlayer(b) /\ body[b].owner = NoName
  \/ Cardinality(Elements(chars)) # Len(chars)

\* The process is killed, or it crashes and saves every connection's character
\* (but newcomers who are not authorized); it is started again.
Crash ==
  /\ \/ UNCHANGED file
     \/ ~Broken /\ \E saved \in SUBSET ({NameOn(d) : d \in Elements(descs)} \ {NoName}) :
          /\ \A d \in Elements(descs) : NameOn(d) \in DOMAIN file => NameOn(d) \in saved
          /\ file' = [n \in DOMAIN file \cup saved |->
                        IF n \in saved THEN Written({n}, Rescued(n))[n] ELSE file[n]]
  /\ conn' = [d \in Conns |-> Closed]
  /\ descs' = <<>>
  /\ body' = [b \in Bodies |-> Freed]
  /\ chars' = World
  /\ amiss' = FALSE

ConnStep(d) ==
  \/ Connect(d) \/ AskForNew(d) \/ Create(d) \/ KickOff(d) \/ Reconnect(d) \/ Reload(d)
  \/ EnterGame(d) \/ Save(d) \/ StartMode(d) \/ EndMode(d) \/ ChangePassword(d) \/ Return(d)
  \/ Quit(d) \/ Drop(d)
  \/ \E n \in Names : EnterName(d, n)
  \/ \E yes \in BOOLEAN : ConfirmName(d, yes)
  \/ \E v \in Bodies : Switch(d, v)

Next ==
  \/ Crash
  \/ /\ ~Broken
     /\ \/ \E d \in Conns : ConnStep(d)
        \/ \E b \in Bodies : IdleOut(b) \/ MobDies(b) \/ Die(b)
        \/ \E lost \in SUBSET Conns : Copyover(lost)
        \/ CopyoverFails

Spec == Init /\ [][Next]_vars

---------------------------------------------------------------------------
(* Properties.                                                             *)

\* Safety: until something went amiss, a player has at most one body in the
\* game, however many of his connections ask for it, are cut off, come back or
\* are carried over, and also while an immortal plays the body he left; and a
\* name is created, or loaded for the game, on one connection at a time, though
\* it is free when a second connection enters it and is asked for again only
\* at the password.
OneBody ==
  \A b, c \in Elements(chars) :
    IsPlayer(b) /\ IsPlayer(c) /\ body[b].owner = body[c].owner => b = c
OneNewcomer ==
  \A d, e \in Elements(descs) :
    {conn[d].state, conn[e].state} \subseteq {"confirm", "creating", "motd"} /\ NameOn(d) = NameOn(e)
      => d = e
OneOfEach == amiss \/ (OneBody /\ OneNewcomer)

\* Safety: until something went amiss, the pointers between connections and
\* bodies agree, both ways, also for one who plays a mob or another player:
\* nobody is heard in a body that does not answer to him, no body sends its
\* output to somebody else, and who is gone from his own body plays another one.
\* A connection is past the login exactly when its character is in the game: its
\* loss leaves the one link-dead there and frees the other.
PointersAgree ==
  /\ \A d \in Elements(descs) : conn[d].state \in InGame =>
       LET c == conn[d].character o == conn[d].original IN
       /\ c \in Elements(chars) /\ body[c].desc = d
       /\ o # NoBody => o \in Elements(chars) /\ body[o].desc = NoConn /\ body[o].switched = c
  /\ \A d \in Elements(descs) : conn[d].character # NoBody =>
       (conn[d].state \in InGame <=> conn[d].character \in Elements(chars))
  /\ \A c \in Elements(chars) : body[c].desc # NoConn =>
       body[c].desc \in Elements(descs) /\ conn[body[c].desc].character = c
  /\ \A o \in Elements(chars) : body[o].switched # NoBody =>
       \E d \in Elements(descs) : conn[d].original = o
LinksMutual == amiss \/ PointersAgree

\* Action property: a connection in the game stays the same player's until it
\* closes, through switches, deaths, takeovers and copyovers, until something
\* goes amiss.
SamePlayer ==
  [][\A d \in Elements(descs) :
       conn[d].state \in InGame =>
         conn'[d].state = "none" \/ NameOn(d)' = NameOn(d) \/ amiss']_vars
=============================================================================
