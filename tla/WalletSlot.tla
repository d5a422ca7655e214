----------------------------- MODULE WalletSlot -----------------------------
(***************************************************************************)
(* The wallet road to the NMTS key: a slot file, sealed under a key made of *)
(* a wallet's signature of one message, and the signature in a second      *)
(* file.  A signature's secret is what was signed and by whom; two of them *)
(* make one wrapping key only if they are the same.                        *)
(***************************************************************************)
EXTENDS Naturals

Refused(why) == [refused |-> why]
IsRefused(result) == "refused" \in DOMAIN result

WalletKind == 1
PasskeyKind == 2
SlotVersion == 1
SlotLen == 62

\* Sui's signature schemes, and the length of the serialized form of those taken.
SerializedLen ==
  [ed25519 |-> 97, secp256k1 |-> 98, secp256r1 |-> 98]

SchemeRefused == {"multisig", "zklogin", "passkey"}

\* The seven fixed lines, the address, the number and the application.
OpenerMessage(address, account, app) ==
  IF ~address.canonical THEN Refused("address")
  ELSE IF account = 0 THEN Refused("account")
  ELSE IF ~app.canonical THEN Refused("app")
  ELSE [wallet |-> address.name, account |-> account, app |-> app.name]

OpenerFromSecret(secret, kind) == [wrapKey |-> secret, kind |-> kind]

OpenerFromSignature(serialized) ==
  IF serialized.len = 0 THEN Refused("empty")
  ELSE IF serialized.scheme \in SchemeRefused THEN Refused(serialized.scheme)
  ELSE IF serialized.scheme \notin DOMAIN SerializedLen THEN Refused("unknown")
  ELSE IF serialized.len # SerializedLen[serialized.scheme] THEN Refused("length")
  ELSE OpenerFromSecret(serialized.secret, WalletKind)

OpenerFromPasskeyPrf(secret) == OpenerFromSecret(secret, PasskeyKind)

\* The first two bytes are sealed with the rest.
Seal(opener, code) ==
  [len |-> SlotLen, text |-> FALSE, version |-> SlotVersion, kind |-> opener.kind,
   sealed |-> [wrapKey |-> opener.wrapKey, aad |-> <<SlotVersion, opener.kind>>,
               code |-> code]]

OpenSlot(opener, slot) ==
  IF slot.len # SlotLen THEN Refused("slot length")
  ELSE IF slot.version # SlotVersion THEN Refused("slot version")
  ELSE IF \/ slot.sealed.wrapKey # opener.wrapKey
          \/ slot.sealed.aad # <<slot.version, slot.kind>>
       THEN Refused("does not open")
  ELSE [code |-> slot.sealed.code]

\* A slot travels as bytes or as text; a file of another length is another file.
ReadSlot(file) ==
  IF file.len = SlotLen \/ (file.text /\ file.decoded = SlotLen)
  THEN [file EXCEPT !.len = SlotLen]
  ELSE Refused("slot length")

OpenAccountCode(slotFile, signatureFile) ==
  LET slot == ReadSlot(slotFile)
      opener == OpenerFromSignature(signatureFile)
  IN  IF IsRefused(slot) THEN slot
      ELSE IF ~signatureFile.text THEN Refused("not text")
      ELSE IF IsRefused(opener) THEN opener
      ELSE OpenSlot(opener, slot)
=============================================================================
