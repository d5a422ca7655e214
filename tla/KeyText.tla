------------------------------- MODULE KeyText -------------------------------
(***************************************************************************)
(* Text to NMTS key.  A key is one of two spellings of 20 bytes: a code of  *)
(* 32 symbols and a check symbol, typed in groups of any size, or a phrase  *)
(* of 15 words.  A text says which it is, the lengths of its pieces that    *)
(* have a letter in them, whether every word of a phrase is in a list,      *)
(* whether the check agrees, and whose key it is.                           *)
(***************************************************************************)
EXTENDS Naturals, Sequences

PhraseWords == 15
MinPhrasePieces == 12

LooksLikePhrase(text) ==
  /\ Len(text.pieces) >= MinPhrasePieces
  /\ \A i \in DOMAIN text.pieces : text.pieces[i] >= 2

ReadsAsCode(text) == text.form = "code" /\ text.sound

ReadsAsPhrase(text) ==
  /\ text.form = "phrase"
  /\ Len(text.pieces) = PhraseWords
  /\ text.known
  /\ text.sound

\* parse_account_code: what is read, or nothing.
IsKey(text) ==
  IF LooksLikePhrase(text) THEN ReadsAsPhrase(text) ELSE ReadsAsCode(text)
==============================================================================
