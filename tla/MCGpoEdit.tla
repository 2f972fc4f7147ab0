----------------------------- MODULE MCGpoEdit -----------------------------
(***************************************************************************)
(* Instances of GpoEdit for TLC: which files a policy has.                 *)
(***************************************************************************)
EXTENDS GpoEdit

F(kind, half, part) == [kind |-> kind, half |-> half, part |-> part]

\* In a half, administrative templates and both script files; in the other, a
\* preference type, whose file goes with its last item.
Mixed == {F("admx", "Machine", 0), F("scripts", "Machine", 0), F("scripts", "Machine", 1),
          F("preferences", "User", 0)}
\* A kind that merges and is never unregistered, and one that replaces, of one half.
Shared == {F("security", "Machine", 0), F("preferences", "Machine", 0)}
\* One editor's file alone.
Templates == {F("admx", "Machine", 0)}

\* Both words about to wrap, for Word = 4.
Brink == 3 + 3 * 4
=============================================================================
