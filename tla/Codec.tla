-------------------------------- MODULE Codec --------------------------------
(***************************************************************************)
(* Bytes of the two programs: instructions of the stake pool program       *)
(* (program/src/instruction.rs), instructions of the token program         *)
(* (token/program/src/instruction.rs), and the validator stake list        *)
(* (program/src/state.rs).                                                 *)
(*                                                                         *)
(* A byte is a digit, a u64 is W digits with the lowest first, a key is    *)
(* KeyLen digits.  Encoders and decoders are separate code in the source   *)
(* and separate definitions here, tags included.  An Err, and the panic of *)
(* a slice that is too short, are the value Rejected.                      *)
(***************************************************************************)
EXTENDS Integers, Sequences, FiniteSetsExt

CONSTANTS
  Base,    \* number of byte values; 256 in the code
  W,       \* bytes of a u64; 8 in the code
  KeyLen,  \* bytes of a Pubkey; 32 in the code
  MAX_VALIDATOR_STAKE_ACCOUNTS,
  MAX_SIGNERS  \* 11 in the code; MIN_SIGNERS is 1

ASSUME CodecAssumption ==
  /\ Base \in Nat /\ Base > 17  \* room for the 17 tags of the token program
  /\ W \in Nat \ {0} /\ KeyLen \in Nat \ {0}
  /\ MAX_VALIDATOR_STAKE_ACCOUNTS \in 1 .. Base * Base - 1
  /\ MAX_SIGNERS \in 1 .. Base - 1

Rejected == [op |-> "Rejected"]

\* The weight of the digit with k digits before it: Base to the power of k.
Weight[k \in Nat] == IF k = 0 THEN 1 ELSE Base * Weight[k - 1]

\* to_le_bytes and from_le_bytes, w bytes wide.
to_le_bytes(n, w) == [i \in 1 .. w |-> (n \div Weight[i - 1]) % Base]

from_le_bytes(s) ==
  SumFunctionOnSet([i \in DOMAIN s |-> s[i] * Weight[i - 1]], DOMAIN s)

\* The first n bytes, or all there are.
First(s, n) == SubSeq(s, 1, Min({n, Len(s)}))
After(s, n) == SubSeq(s, n + 1, Len(s))

-----------------------------------------------------------------------------
(***************************************************************************)
(* StakePoolInstruction.  The buffer has the size of the enum whatever the *)
(* variant: a tag padded to a word, and the two words of InitArgs.  The    *)
(* arguments start at the byte after the tag.                              *)
(***************************************************************************)
PoolTag ==
  [Initialize |-> 0, CreateValidatorStakeAccount |-> 1,
   AddValidatorStakeAccount |-> 2, RemoveValidatorStakeAccount |-> 3,
   UpdateListBalance |-> 4, UpdatePoolBalance |-> 5, Deposit |-> 6,
   Withdraw |-> 7, SetStakingAuthority |-> 8, SetOwner |-> 9,
   AddLiquidity |-> 10, SellstSOL |-> 11]

\* The arms of deserialize's match, from tag 0.
PoolArm ==
  <<"Initialize", "CreateValidatorStakeAccount", "AddValidatorStakeAccount",
    "RemoveValidatorStakeAccount", "UpdateListBalance", "UpdatePoolBalance",
    "Deposit", "Withdraw", "SetStakingAuthority", "SetOwner", "AddLiquidity",
    "SellstSOL">>

WithAmount == {"Withdraw", "AddLiquidity", "SellstSOL"}

PoolInstructionLen == 3 * W

\* Fee is laid out with its denominator first.
serialize(ix) ==
  LET args == IF ix.op = "Initialize"
              THEN to_le_bytes(ix.fee.denominator, W) \o to_le_bytes(ix.fee.numerator, W)
              ELSE IF ix.op \in WithAmount THEN to_le_bytes(ix.amount, W)
              ELSE <<>>
      used == <<PoolTag[ix.op]>> \o args
  IN [i \in 1 .. PoolInstructionLen |-> IF i <= Len(used) THEN used[i] ELSE 0]

\* unpack::<T>, with T of size bytes: long enough, and which bytes.
HasArgs(input, size) == Len(input) >= 1 + size
Args(input, size) == First(After(input, 1), size)

deserialize(input) ==
  IF input = <<>> \/ input[1] >= Len(PoolArm) THEN Rejected
  ELSE LET op == PoolArm[input[1] + 1]
       IN CASE op = "Initialize" ->
                 IF ~HasArgs(input, 2 * W) THEN Rejected
                 ELSE LET args == Args(input, 2 * W)
                      IN [op |-> op,
                          fee |-> [denominator |-> from_le_bytes(First(args, W)),
                                   numerator |-> from_le_bytes(After(args, W))]]
            [] op \in WithAmount ->
                 IF ~HasArgs(input, W) THEN Rejected
                 ELSE [op |-> op, amount |-> from_le_bytes(Args(input, W))]
            [] OTHER -> [op |-> op]

-----------------------------------------------------------------------------
(***************************************************************************)
(* TokenInstruction.  An absent key (COption::None) is <<>>.               *)
(***************************************************************************)
pack_pubkey_option(key) == IF key = <<>> THEN <<0>> ELSE <<1>> \o key

AuthorityIndex ==
  [MintTokens |-> 0, FreezeAccount |-> 1, AccountOwner |-> 2, CloseAccount |-> 3]

AuthorityFrom == <<"MintTokens", "FreezeAccount", "AccountOwner", "CloseAccount">>

AmountTag == [Transfer |-> 3, Approve |-> 4, MintTo |-> 7, Burn |-> 8]
CheckedTag == [TransferChecked |-> 12, ApproveChecked |-> 13,
               MintToChecked |-> 14, BurnChecked |-> 15]
PlainTag == [InitializeAccount |-> 1, Revoke |-> 5, CloseAccount |-> 9,
             FreezeAccount |-> 10, ThawAccount |-> 11]

pack(ix) ==
  CASE ix.op = "InitializeMint" ->
         <<0, ix.decimals>> \o ix.mint_authority
           \o pack_pubkey_option(ix.freeze_authority)
    [] ix.op = "InitializeMultisig" -> <<2, ix.m>>
    [] ix.op = "SetAuthority" ->
         <<6, AuthorityIndex[ix.authority_type]>>
           \o pack_pubkey_option(ix.new_authority)
    [] ix.op = "InitializeAccount2" -> <<16>> \o ix.owner
    [] ix.op \in DOMAIN AmountTag ->
         <<AmountTag[ix.op]>> \o to_le_bytes(ix.amount, W)
    [] ix.op \in DOMAIN CheckedTag ->
         <<CheckedTag[ix.op]>> \o to_le_bytes(ix.amount, W) \o <<ix.decimals>>
    [] ix.op \in DOMAIN PlainTag -> <<PlainTag[ix.op]>>

\* Mutant of HasKeyOption: the bytes of the key are not counted.
HasOptionTag(input) == input # <<>> /\ input[1] \in {0, 1}

\* unpack_pubkey_option: whether it succeeds, and with which key.
HasKeyOption(input) ==
  /\ input # <<>>
  /\ \/ input[1] = 0
     \/ input[1] = 1 /\ Len(input) >= 1 + KeyLen

KeyOption(input) == IF input[1] = 0 THEN <<>> ELSE First(After(input, 1), KeyLen)

\* The arms of unpack's match, from tag 0.
TokenArm ==
  <<"InitializeMint", "InitializeAccount", "InitializeMultisig", "Transfer",
    "Approve", "Revoke", "SetAuthority", "MintTo", "Burn", "CloseAccount",
    "FreezeAccount", "ThawAccount", "TransferChecked", "ApproveChecked",
    "MintToChecked", "BurnChecked", "InitializeAccount2">>

unpack(input) ==
  IF input = <<>> \/ input[1] >= Len(TokenArm) THEN Rejected
  ELSE
    LET op == TokenArm[input[1] + 1]
        rest == After(input, 1)
    IN CASE op = "InitializeMint" ->
              IF Len(rest) < 1 + KeyLen \/ ~HasKeyOption(After(rest, 1 + KeyLen))
              THEN Rejected
              ELSE [op |-> op, decimals |-> rest[1],
                    mint_authority |-> First(After(rest, 1), KeyLen),
                    freeze_authority |-> KeyOption(After(rest, 1 + KeyLen))]
         [] op = "InitializeMultisig" ->
              IF rest = <<>> THEN Rejected ELSE [op |-> op, m |-> rest[1]]
         [] op \in {"Transfer", "Approve", "MintTo", "Burn"} ->
              IF Len(rest) < W THEN Rejected
              ELSE [op |-> op, amount |-> from_le_bytes(First(rest, W))]
         [] op = "SetAuthority" ->
              IF \/ rest = <<>> \/ rest[1] >= Len(AuthorityFrom)
                 \/ ~HasKeyOption(After(rest, 1))
              THEN Rejected
              ELSE [op |-> op, authority_type |-> AuthorityFrom[rest[1] + 1],
                    new_authority |-> KeyOption(After(rest, 1))]
         [] op \in {"TransferChecked", "ApproveChecked", "MintToChecked",
                    "BurnChecked"} ->
              IF Len(rest) < W + 1 THEN Rejected
              ELSE [op |-> op, amount |-> from_le_bytes(First(rest, W)),
                    decimals |-> rest[W + 1]]
         [] op = "InitializeAccount2" ->
              IF Len(rest) < KeyLen THEN Rejected
              ELSE [op |-> op, owner |-> First(rest, KeyLen)]
         [] OTHER -> [op |-> op]

-----------------------------------------------------------------------------
(***************************************************************************)
(* ValidatorStakeList, in an account of fixed size: version, a u16 count,  *)
(* and room for MAX_VALIDATOR_STAKE_ACCOUNTS records.  What is behind the  *)
(* last record stays from earlier, longer lists.                           *)
(***************************************************************************)
HEADER_LEN == 3
InfoLen == KeyLen + 2 * W
LEN == HEADER_LEN + InfoLen * MAX_VALIDATOR_STAKE_ACCOUNTS

serialize_info(r) ==
  r.validator_account \o to_le_bytes(r.balance, W)
    \o to_le_bytes(r.last_update_epoch, W)

deserialize_info(bytes) ==
  [validator_account |-> First(bytes, KeyLen),
   balance |-> from_le_bytes(First(After(bytes, KeyLen), W)),
   last_update_epoch |-> from_le_bytes(After(bytes, KeyLen + W))]

\* Where the bytes of record k start.
InfoStart(k) == HEADER_LEN + InfoLen * (k - 1)

CanSerialize(l) == Len(l.validators) <= MAX_VALIDATOR_STAKE_ACCOUNTS

\* Mutant of serialize_list: the count only grows.
SerializeKeepingCount(l, output) ==
  LET n == Len(l.validators)
      longest == IF n > from_le_bytes(SubSeq(output, 2, 3)) THEN n
                 ELSE from_le_bytes(SubSeq(output, 2, 3))
      header == <<l.version>> \o to_le_bytes(longest, 2)
      infos == [k \in 1 .. n |-> serialize_info(l.validators[k])]
  IN [i \in 1 .. LEN |->
        IF i <= HEADER_LEN THEN header[i]
        ELSE IF i > InfoStart(n + 1) THEN output[i]
        ELSE LET k == 1 + (i - HEADER_LEN - 1) \div InfoLen
             IN infos[k][i - InfoStart(k)]]

\* What output holds after the list has been written into it.
serialize_list(l, output) ==
  LET n == Len(l.validators)
      header == <<l.version>> \o to_le_bytes(n, 2)
      infos == [k \in 1 .. n |-> serialize_info(l.validators[k])]
  IN [i \in 1 .. LEN |->
        IF i <= HEADER_LEN THEN header[i]
        ELSE IF i > InfoStart(n + 1) THEN output[i]
        ELSE LET k == 1 + (i - HEADER_LEN - 1) \div InfoLen
             IN infos[k][i - InfoStart(k)]]

deserialize_list(input) ==
  LET number_of_validators == from_le_bytes(SubSeq(input, 2, 3))
  IN IF input[1] = 0 THEN [version |-> 0, validators |-> <<>>]
     ELSE IF number_of_validators > MAX_VALIDATOR_STAKE_ACCOUNTS THEN Rejected
     ELSE [version |-> input[1],
           validators |-> [k \in 1 .. number_of_validators |->
             deserialize_info(SubSeq(input, InfoStart(k) + 1, InfoStart(k + 1)))]]

\* Bounds of a multisig.
is_valid_signer_index(index) == index \in 1 .. MAX_SIGNERS

=============================================================================
