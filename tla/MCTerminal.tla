----------------------------- MODULE MCTerminal -----------------------------
(***************************************************************************)
(* Two accounts; lists and kits with every field true and false; keys      *)
(* typed in every way; the slots and signatures of two wallets.            *)
(***************************************************************************)
EXTENDS Terminal, TLC

CONSTANTS me, other

MCAccounts == {me, other}

\* One flag of each kind; "code" is a flag that must not exist.
MCWords ==
  {"list", "print_fetch_plan", "gui", "derive", "print_wallet_message", "write_gui",
   "find", "map", "out", "owner", "code_file", "wallet_slot", "wallet_signature_file", "wallet_account",
   "blobs_dir", "only", "lang", "help", "code"}

Lists ==
  [kit : {FALSE}, marker : BOOLEAN, newer : BOOLEAN, account : MCAccounts, by : MCAccounts,
   sealed : {"fine", "damaged", "unreadable", "none"}, items : {{"a", "b"}}]

Usable(l) == l.marker /\ ~l.newer /\ l.account = me /\ l.by = me

Fine(l) == Usable(l) /\ l.sealed = "fine"

Short == {[l EXCEPT !.items = items] : l \in {m \in Lists : Fine(m)}, items \in {{}, {"b"}}}

Text(form, pieces, known, sound, of) ==
  [form |-> form, pieces |-> pieces, known |-> known, sound |-> sound, of |-> of]

Groups(n, size) == [i \in 1 .. n |-> size]

Display == Append(Groups(7, 4), 5)
Pairs == Append(Groups(15, 2), 3)

MCTexts ==
  {Text("code", Display, FALSE, TRUE, me), Text("code", Groups(33, 1), FALSE, TRUE, me),
   Text("code", Pairs, FALSE, TRUE, me), Text("code", Display, FALSE, FALSE, me),
   Text("code", <<>>, FALSE, FALSE, me), Text("code", Display, FALSE, TRUE, other),
   Text("phrase", Groups(15, 5), TRUE, TRUE, me), Text("phrase", Groups(12, 5), TRUE, TRUE, me),
   Text("phrase", Groups(15, 5), TRUE, FALSE, me), Text("phrase", Groups(15, 5), FALSE, FALSE, me)}

KitKeys == {NoCode, Text("code", Display, FALSE, TRUE, me),
            Text("code", Display, FALSE, TRUE, other), Text("code", <<>>, FALSE, FALSE, me)}

Kits ==
  [kit : {TRUE}, whole : BOOLEAN, marker : BOOLEAN, newer : BOOLEAN, account : MCAccounts,
   code : KitKeys,
   list : {NoList} \union {l \in Lists : l.sealed \in {"fine", "none"} /\ l.by = me}]

\* Of a kit that is refused whatever else it says, one of each kind.
MCDisk ==
  Lists \union Short
  \union {k \in Kits : KitRefused(k) = "" \/ k.code = NoCode}

MCAddresses == [canonical : BOOLEAN, name : {"w1"}]
MCApps == [canonical : BOOLEAN, name : {"", "app"}]

SecretOf(wallet, account) ==
  <<wallet, OpenerMessage([canonical |-> TRUE, name |-> wallet], account,
                          [canonical |-> TRUE, name |-> ""])>>

Signature(scheme, len, secret) ==
  [text |-> TRUE, scheme |-> scheme, len |-> len, secret |-> secret]

Mine == Signature("ed25519", 97, SecretOf("w1", 1))

MCSignatures ==
  {Mine, [Mine EXCEPT !.len = 98], [Mine EXCEPT !.scheme = "secp256k1"],
   [Mine EXCEPT !.len = 0], [Mine EXCEPT !.text = FALSE],
   [Mine EXCEPT !.scheme = "zklogin"], [Mine EXCEPT !.scheme = "new"],
   [Mine EXCEPT !.secret = SecretOf("w2", 1)], [Mine EXCEPT !.secret = SecretOf("w1", 2)]}

MySlot == Seal(OpenerFromSignature(Mine), me)

MCSlots ==
  {MySlot @@ [decoded |-> 0],
   [MySlot EXCEPT !.len = 84, !.text = TRUE] @@ [decoded |-> SlotLen],
   [MySlot EXCEPT !.len = 80] @@ [decoded |-> 0],
   [MySlot EXCEPT !.version = 2] @@ [decoded |-> 0],
   [MySlot EXCEPT !.kind = PasskeyKind] @@ [decoded |-> 0],
   Seal(OpenerFromPasskeyPrf(SecretOf("passkey", 1)), other) @@ [decoded |-> 0]}
=============================================================================
