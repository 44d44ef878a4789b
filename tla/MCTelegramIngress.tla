------------------------------ MODULE MCTelegramIngress ------------------------------
(* Small instances of TelegramIngress for TLC. *)
EXTENDS TelegramIngress, TLC

CONSTANTS d1, d2, b1, q1, q2, a1, a2

\* One chat: a text, a text of the same author, a text of another.
ChatQueue  == <<q1, q1, q1>>
ChatShape  == <<"text", "text", "text">>
ChatAuthor == <<a1, a1, a2>>

\* The same with a voice message first.
VoiceShape == <<"voice", "text", "text">>

\* Three texts of one author in one chat: a series may form.
SeriesAuthor == <<a1, a1, a1>>

\* One chat, two texts of one author.
PairQueue  == <<q1, q1>>
PairShape  == <<"text", "text">>
PairAuthor == <<a1, a1>>

\* A text and an unparsable update behind it in one chat, a press in another.
SharedQueue  == <<q1, q1, q2>>
SharedShape  == <<"text", "junk", "callback">>
SharedAuthor == <<a1, a1, a1>>

\* Message loops are interchangeable (used by safety runs only).
DrainSymmetry == Permutations(AnyDrains)

=============================================================================
