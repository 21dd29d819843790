------------------------------- MODULE Codec -------------------------------
(***************************************************************************)
(* src/reference/are_codec.py: how an envelope and an anchor become the    *)
(* JSON of a vector file and come back.  JSON has strings, numbers,        *)
(* booleans, lists and objects: bytes are carried as tagged hex strings,   *)
(* the 256-bit base fee as a decimal string, a tuple as a list, and an     *)
(* absent declared_state_root as an absent key.                            *)
(***************************************************************************)
EXTENDS Integers, Sequences

CONSTANT NONE   \* Python's None: a read without declared_state_root

hx(b)   == [hex |-> b]
unhx(s) == s.hex

str(n)     == [decimal |-> n]
parse(s)   == s.decimal

list(tuple)  == [list |-> tuple]
tuple_of(l)  == l.list

(* Fields that are bytes; the others are numbers and booleans.             *)
HeaderBytes == {"parent_root", "state_root", "body_root"}

ExecBytes ==
  {"parent_hash", "fee_recipient", "state_root", "receipts_root", "logs_bloom", "prev_randao",
   "extra_data", "block_hash", "transactions_root", "withdrawals_root"}

HexFields(object, fields) ==
  [f \in DOMAIN object |-> IF f \in fields THEN hx(object[f]) ELSE object[f]]

UnhexFields(json, fields) ==
  [f \in DOMAIN json |-> IF f \in fields THEN unhx(json[f]) ELSE json[f]]

header_to_json(h)   == HexFields(h, HeaderBytes)
header_from_json(j) == UnhexFields(j, HeaderBytes)

exec_to_json(x)   == [HexFields(x, ExecBytes) EXCEPT !.base_fee_per_gas = str(@)]
exec_from_json(j) == [UnhexFields(j, ExecBytes) EXCEPT !.base_fee_per_gas = parse(@)]

(* A bit list of the given length, one boolean per seat.                   *)
bits_to_json(bits, size) == [i \in 0 .. size - 1 |-> i \in bits]
bits_from_json(j)        == {i \in DOMAIN j : j[i]}

AnchorBytes ==   \* lists of bytes among them
  {"sync_committee_signature", "execution_branch", "finality_branch", "ancestor_proof"}

anchor_to_json(a, size) ==
  [HexFields(a, AnchorBytes) EXCEPT
     !.attested_header     = header_to_json(@),
     !.read_block_header   = header_to_json(@),
     !.finalized_header    = header_to_json(@),
     !.execution_header    = exec_to_json(@),
     !.sync_committee_bits = bits_to_json(@, size)]

anchor_from_json(j) ==
  [UnhexFields(j, AnchorBytes) EXCEPT
     !.attested_header     = header_from_json(@),
     !.read_block_header   = header_from_json(@),
     !.finalized_header    = header_from_json(@),
     !.execution_header    = exec_from_json(@),
     !.sync_committee_bits = bits_from_json(@)]

ReadBytes == {"address", "slot", "value", "account_proof", "storage_proof", "declared_state_root"}

(* Mutant of read_to_json: declared_state_root is not written.             *)
read_to_json_bare(r) ==
  HexFields([f \in DOMAIN r \ {"declared_state_root"} |-> r[f]], ReadBytes)

read_to_json(r) ==
  LET optional == IF r.declared_state_root = NONE THEN {"declared_state_root"} ELSE {}
  IN  HexFields([f \in DOMAIN r \ optional |-> r[f]], ReadBytes)

read_from_json(j) ==
  [f \in DOMAIN j \union {"declared_state_root"} |->
     IF f \notin DOMAIN j THEN NONE ELSE IF f \in ReadBytes THEN unhx(j[f]) ELSE j[f]]

EnvelopeBytes == {"state_root", "anchor_ref", "provider_sig", "provider_key_hint"}

envelope_to_json(e) ==
  [HexFields(e, EnvelopeBytes) EXCEPT
     !.proof_format = list(@),
     !.reads        = [i \in DOMAIN @ |-> read_to_json(@[i])]]

envelope_from_json(j) ==
  [UnhexFields(j, EnvelopeBytes) EXCEPT
     !.proof_format = tuple_of(@),
     !.reads        = [i \in DOMAIN @ |-> read_from_json(@[i])]]
=============================================================================
