---------------------------- MODULE MCChatSession ----------------------------
(* An instance of ChatSession for TLC. *)
EXTENDS ChatSession

\* Characters of names and texts, as numbers that are no space and no word.
x == 97
y == 98

\* A command with a room alone; one with a text of several words, which grows
\* longer than MaxText, than the first size of its buffer, and by one symbol
\* longer than a buffer that was doubled once; the command that ends the client,
\* and a line that is none.
TypedLines ==
    { << Word.join, Space, x >>,
      << Word.send, Space, x, Space, y, Space >> \o [k \in 1 .. 2 * BufferSize - 18 |-> y],
      << Word.quit >>,
      << x >> }

\* A short answer, and one whose frame takes more than one recv.
SentTexts == { << x >>, [k \in 1 .. BufferSize - 11 |-> y] }
=============================================================================
