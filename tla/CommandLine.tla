---------------------------- MODULE CommandLine ----------------------------
(***************************************************************************)
(* args::parse: the words of the command line are read from left to right, *)
(* the last mode named is the mode, and what was gathered is then checked  *)
(* as a whole.  A flag that takes a value takes the next word whatever it  *)
(* is, unless it is a flag itself.                                         *)
(***************************************************************************)
EXTENDS Integers

CONSTANTS
  Words,     \* the flags a person may write
  MaxWords   \* bound on the flags of one command line

VARIABLES
  args,      \* [mode, given]: Args, with the options that were given
  argc,      \* flags read so far
  exit       \* the exit code, or Running

line == <<args, argc, exit>>

Running == -1

\* The flags that choose the mode; two of them take a value.
ModeFlag ==
  [list |-> "List", print_fetch_plan |-> "FetchPlan", gui |-> "Gui",
   derive |-> "Derive", write_gui |-> "WriteGui",
   print_wallet_message |-> "PrintWalletMessage"]

Bare ==
  {"list", "print_fetch_plan", "gui", "derive", "find", "ai_accounts", "secrets",
   "overwrite", "use_recorded_aggregators", "no_open"}

Checked ==
  {"depth", "export_evm_key", "wallet_account", "wallets", "public_codes", "port", "lang"}

Valued ==
  Checked \union
  {"map", "out", "code_file", "blobs_dir", "rpc", "owner", "aggregator", "only",
   "print_wallet_message", "wallet_app", "wallet_slot", "wallet_signature_file", "write_gui"}

Tells == {"help", "version"}

\* What may follow a flag: a word that its value can be, one that it cannot, or
\* another flag, or nothing.
Follows == {"good", "bad", "none"}

TakesValue(flag, next) ==
  next # "none" /\ (flag \in Checked => next = "good")

With(a, flag) ==
  IF flag \in DOMAIN ModeFlag
  THEN [a EXCEPT !.mode = ModeFlag[flag]]
  ELSE [a EXCEPT !.given = @ \union {flag}]

LineInit ==
  /\ args = [mode |-> "Restore", given |-> {}]
  /\ argc = 0
  /\ exit = Running

Has(option) == option \in args.given

(***************************************************************************)
(* One flag, with its value.                                               *)
(***************************************************************************)
ReadFlag(flag, next) ==
  /\ argc < MaxWords
  /\ \/ flag \in Bare /\ next = "none"
     \/ flag \in Valued /\ TakesValue(flag, next)
  /\ args' = With(args, flag)
  /\ argc' = argc + 1
  /\ UNCHANGED exit

Tell(flag) == flag \in Tells /\ exit' = 0 /\ UNCHANGED <<args, argc>>

\* A value that is missing or not understood, an option that must not exist, a
\* word that is none.
RefuseWord(flag, next) ==
  /\ \/ flag \in Valued /\ ~TakesValue(flag, next)
     \/ flag \notin Bare \union Valued \union Tells
  /\ exit' = 2
  /\ UNCHANGED <<args, argc>>

(***************************************************************************)
(* The checks of the whole.                                                *)
(***************************************************************************)
ListIsNamedOnce ==
  /\ \/ Has("map") \/ Has("find")
     \/ args.mode \in {"Gui", "WriteGui", "Derive", "PrintWalletMessage"}
  /\ ~(Has("map") /\ Has("find"))
  /\ Has("owner") => Has("find")

KeyIsNamedOnce ==
  /\ Has("wallet_slot") <=> Has("wallet_signature_file")
  /\ ~(Has("wallet_slot") /\ Has("code_file"))

Coherent ==
  /\ ListIsNamedOnce
  /\ args.mode = "Restore" => Has("out")
  /\ KeyIsNamedOnce
  /\ Has("wallet_account") \/ Has("wallet_app") => args.mode = "PrintWalletMessage"

RefuseLine == ~Coherent /\ exit' = 2 /\ UNCHANGED <<args, argc>>

ParseStep ==
  \/ \E flag \in Words, next \in Follows :
        ReadFlag(flag, next) \/ RefuseWord(flag, next)
  \/ \E flag \in Words : Tell(flag)
  \/ RefuseLine
=============================================================================
