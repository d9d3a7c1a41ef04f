-------------------------- MODULE SessionPromises --------------------------
(***************************************************************************)
(* What comments, messages and assertions of the code say of connections   *)
(* and bodies.  The code breaks each of them: when an immortal goes into a *)
(* player, when somebody dies for good or mistypes a changed password, or  *)
(* when two connections want the same name.                                *)
(***************************************************************************)
EXTENDS Sessions

\* "Ta postac jest juz w grze.": who asks for a character that is in the game
\* does not get a second one.
NoSecondBody == OneBody

\* "tutaj dodawać TRYBY w jakich jest gracz (po zalogowaniu się)": a character
\* in the game is in one of the states after the login.
InGamePastLogin ==
  \A d \in Elements(descs) :
    conn[d].character \in Elements(chars) => conn[d].state \in InGame

\* "Twój umysł powraca do swojego ciała.": who plays another's body has his own
\* to return to.
BodyAwaits ==
  \A d \in Elements(descs) :
    conn[d].original # NoBody => conn[d].original \in Elements(chars)

\* "wywalmy graczy -- razem z save, żeby nie narzekali": nobody's file is worse
\* for a save.
FilesStayWhole ==
  [][\A n \in DOMAIN file \cap DOMAIN file' : file[n] = "whole" => file'[n] = "whole"]_vars

\* "No char to rename": a mode has the thing it works on.
ModeHasWork == \A d \in Elements(descs) : conn[d].state = "mode" => conn[d].work
=============================================================================
