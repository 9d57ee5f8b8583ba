-------------------------------- MODULE Wire --------------------------------
(***************************************************************************)
(* The boundary between clients and the two programs: an instruction is    *)
(* built by a constructor, travels as bytes and a list of accounts, and is *)
(* decoded by the entrypoint.  The handler takes the accounts in the order *)
(* it expects them and, when it is one that writes the validator stake     *)
(* list, reads the list's bytes, changes the list and writes it back.      *)
(*                                                                         *)
(* The bytes may also come from another caller's encoder, which stops      *)
(* after the bytes it knows of or appends its own: Reencode.               *)
(***************************************************************************)
EXTENDS Codec

Seqs == INSTANCE SequencesExt

CONSTANTS
  Keys,       \* public keys that occur
  Amounts,    \* u64s that occur in instructions
  Balances,   \* balances and epochs that occur in records
  NoMessage

ASSUME WireAssumption ==
  /\ Keys \subseteq [1 .. KeyLen -> 0 .. Base - 1]
  /\ Amounts \cup Balances \subseteq 0 .. Weight[W] - 1

VARIABLES
  message,  \* the instruction on its way
  account,  \* bytes of the validator stake list account
  list      \* history: the list the handlers have meant to store

vars == <<message, account, list>>

-----------------------------------------------------------------------------
(***************************************************************************)
(* AccountMeta: [] read-only, [w] writable, [s] signer.                    *)
(***************************************************************************)
R(role) == [role |-> role, writable |-> FALSE, signer |-> FALSE]
Wr(role) == [role |-> role, writable |-> TRUE, signer |-> FALSE]
S(role) == [role |-> role, writable |-> FALSE, signer |-> TRUE]
WS(role) == [role |-> role, writable |-> TRUE, signer |-> TRUE]

(***************************************************************************)
(* Constructors of program/src/instruction.rs: the accounts.               *)
(***************************************************************************)
initialize ==
  <<WS("stake_pool"), S("owner"), Wr("list"), R("mint"), R("fee_account"),
    R("clock"), R("rent"), R("token_program")>>

create_validator_stake_account ==
  <<R("stake_pool"), WS("funder"), Wr("stake"), R("validator"), R("staker"),
    R("withdrawer"), R("rent"), R("system_program"), R("stake_program")>>

add_validator_stake_account ==
  <<Wr("stake_pool"), S("owner"), R("deposit"), R("withdraw"), Wr("list"),
    Wr("stake"), Wr("tokens"), Wr("mint"), R("clock"), R("stake_history"),
    R("token_program"), R("stake_program")>>

remove_validator_stake_account ==
  <<Wr("stake_pool"), S("owner"), R("withdraw"), R("new_authority"),
    Wr("list"), Wr("stake"), Wr("tokens"), Wr("mint"), R("clock"),
    R("token_program"), R("stake_program")>>

\* One vote account here; any number may follow.
update_list_balance == <<Wr("list"), R("clock"), R("validator")>>

update_pool_balance == <<Wr("stake_pool"), Wr("list"), R("clock")>>

deposit ==
  <<Wr("stake_pool"), Wr("list"), R("deposit"), R("withdraw"),
    Wr("stake_to_join"), Wr("stake"), Wr("tokens"), Wr("fee_account"),
    Wr("mint"), R("clock"), R("stake_history"), R("token_program"),
    R("stake_program")>>

\* The user's authority is not marked as a signer.
instruction_add_liquidity ==
  <<R("liq_pool"), R("token_program"), Wr("metalp_mint"),
    R("metalp_authority"), Wr("user_wsol"), R("user_authority"),
    Wr("liq_wsol"), Wr("user_metalp")>>

instruction_sell_stsol ==
  <<R("stake_pool"), R("liq_pool"), R("token_program"), Wr("liq_wsol"),
    Wr("liq_stsol"), R("liq_authority"), Wr("user_wsol"), Wr("user_stsol"),
    R("user_authority")>>

\* Mutant of withdraw: two accounts of the same type are swapped.
WithdrawSwapped ==
  <<Wr("stake_pool"), Wr("list"), R("withdraw"), Wr("stake_to_receive"),
    Wr("stake"), R("user"), Wr("tokens"), Wr("mint"), R("clock"),
    R("token_program"), R("stake_program")>>

withdraw ==
  <<Wr("stake_pool"), Wr("list"), R("withdraw"), Wr("stake"),
    Wr("stake_to_receive"), R("user"), Wr("tokens"), Wr("mint"), R("clock"),
    R("token_program"), R("stake_program")>>

set_staking_authority ==
  <<Wr("stake_pool"), S("owner"), R("withdraw"), Wr("stake"), R("staker"),
    R("clock"), R("stake_program")>>

set_owner ==
  <<Wr("stake_pool"), S("owner"), R("new_owner"), R("fee_account")>>

PoolConstructor ==
  [Initialize |-> initialize,
   CreateValidatorStakeAccount |-> create_validator_stake_account,
   AddValidatorStakeAccount |-> add_validator_stake_account,
   RemoveValidatorStakeAccount |-> remove_validator_stake_account,
   UpdateListBalance |-> update_list_balance,
   UpdatePoolBalance |-> update_pool_balance,
   Deposit |-> deposit, Withdraw |-> withdraw,
   SetStakingAuthority |-> set_staking_authority, SetOwner |-> set_owner,
   AddLiquidity |-> instruction_add_liquidity,
   SellstSOL |-> instruction_sell_stsol]

-----------------------------------------------------------------------------
(***************************************************************************)
(* Constructors of token/program/src/instruction.rs.  With n signers the   *)
(* authority is a multisig, which does not sign itself.                    *)
(***************************************************************************)
Signers(n) == [i \in 1 .. n |-> S("signer")]

Authority(n) ==
  <<[role |-> "authority", writable |-> FALSE, signer |-> n = 0]>> \o Signers(n)

initialize_mint == <<Wr("mint"), R("rent")>>
initialize_account == <<Wr("account"), R("mint"), R("owner"), R("rent")>>
initialize_account2 == <<Wr("account"), R("mint"), R("rent")>>
initialize_multisig(n) ==
  <<Wr("multisig"), R("rent")>> \o [i \in 1 .. n |-> R("signer")]
transfer(n) == <<Wr("source"), Wr("destination")>> \o Authority(n)
approve(n) == <<Wr("source"), R("delegate")>> \o Authority(n)
revoke(n) == <<Wr("source")>> \o Authority(n)
set_authority(n) == <<Wr("owned")>> \o Authority(n)
mint_to(n) == <<Wr("mint"), Wr("account")>> \o Authority(n)
burn(n) == <<Wr("account"), Wr("mint")>> \o Authority(n)
close_account(n) == <<Wr("account"), Wr("destination")>> \o Authority(n)
freeze_account(n) == <<Wr("account"), R("mint")>> \o Authority(n)
thaw_account(n) == <<Wr("account"), R("mint")>> \o Authority(n)
transfer_checked(n) ==
  <<Wr("source"), R("mint"), Wr("destination")>> \o Authority(n)
approve_checked(n) ==
  <<Wr("source"), R("mint"), R("delegate")>> \o Authority(n)
mint_to_checked(n) == <<Wr("mint"), Wr("account")>> \o Authority(n)
burn_checked(n) == <<Wr("account"), Wr("mint")>> \o Authority(n)

TokenConstructor(n) ==
  [InitializeMint |-> initialize_mint, InitializeAccount |-> initialize_account,
   InitializeAccount2 |-> initialize_account2,
   InitializeMultisig |-> initialize_multisig(n),
   Transfer |-> transfer(n), Approve |-> approve(n), Revoke |-> revoke(n),
   SetAuthority |-> set_authority(n), MintTo |-> mint_to(n), Burn |-> burn(n),
   CloseAccount |-> close_account(n), FreezeAccount |-> freeze_account(n),
   ThawAccount |-> thaw_account(n), TransferChecked |-> transfer_checked(n),
   ApproveChecked |-> approve_checked(n), MintToChecked |-> mint_to_checked(n),
   BurnChecked |-> burn_checked(n)]

-----------------------------------------------------------------------------
(***************************************************************************)
(* Handlers: the accounts they take with next_account_info, in this order, *)
(* which of them they write (or have a program write that they invoke) and *)
(* whose signature they need.                                              *)
(***************************************************************************)
Takes(roles, written, signed) ==
  [i \in DOMAIN roles |-> [role |-> roles[i], writable |-> roles[i] \in written,
                           signer |-> roles[i] \in signed]]

process_initialize ==
  Takes(<<"stake_pool", "owner", "list", "mint", "fee_account", "clock", "rent",
          "token_program">>, {"stake_pool", "list"}, {"owner"})
process_create_validator_stake_account ==
  Takes(<<"stake_pool", "funder", "stake", "validator", "staker", "withdrawer",
          "rent", "system_program", "stake_program">>,
        {"funder", "stake"}, {"funder"})
process_add_validator_stake_account ==
  Takes(<<"stake_pool", "owner", "deposit", "withdraw", "list", "stake", "tokens",
          "mint", "clock", "stake_history", "token_program", "stake_program">>,
        {"stake_pool", "list", "stake", "tokens", "mint"}, {"owner"})
process_remove_validator_stake_account ==
  Takes(<<"stake_pool", "owner", "withdraw", "new_authority", "list", "stake",
          "tokens", "mint", "clock", "token_program", "stake_program">>,
        {"stake_pool", "list", "stake", "tokens", "mint"}, {"owner"})
process_update_list_balance ==
  Takes(<<"list", "clock", "validator">>, {"list"}, {})
process_update_pool_balance ==
  Takes(<<"stake_pool", "list", "clock">>, {"stake_pool"}, {})
process_deposit ==
  Takes(<<"stake_pool", "list", "deposit", "withdraw", "stake_to_join", "stake",
          "tokens", "fee_account", "mint", "clock", "stake_history",
          "token_program", "stake_program">>,
        {"stake_pool", "list", "stake_to_join", "stake", "tokens", "mint"}, {})
process_withdraw ==
  Takes(<<"stake_pool", "list", "withdraw", "stake", "stake_to_receive", "user",
          "tokens", "mint", "clock", "token_program", "stake_program">>,
        {"stake_pool", "list", "stake", "stake_to_receive", "tokens", "mint"}, {})
process_set_staking_auth ==
  Takes(<<"stake_pool", "owner", "withdraw", "stake", "staker", "clock",
          "stake_program">>, {"stake"}, {"owner"})
process_set_owner ==
  Takes(<<"stake_pool", "owner", "new_owner", "fee_account">>,
        {"stake_pool"}, {"owner"})
process_add_liquidity ==
  Takes(<<"liq_pool", "token_program", "metalp_mint", "metalp_authority",
          "user_wsol", "user_authority", "liq_wsol", "user_metalp">>,
        {"metalp_mint", "user_wsol", "liq_wsol", "user_metalp"}, {"user_authority"})
process_sell_stsol ==
  Takes(<<"stake_pool", "liq_pool", "token_program", "liq_wsol", "liq_stsol",
          "liq_authority", "user_wsol", "user_stsol", "user_authority">>,
        {"liq_wsol", "liq_stsol", "user_wsol", "user_stsol"}, {"user_authority"})

PoolHandler ==
  [Initialize |-> process_initialize,
   CreateValidatorStakeAccount |-> process_create_validator_stake_account,
   AddValidatorStakeAccount |-> process_add_validator_stake_account,
   RemoveValidatorStakeAccount |-> process_remove_validator_stake_account,
   UpdateListBalance |-> process_update_list_balance,
   UpdatePoolBalance |-> process_update_pool_balance,
   Deposit |-> process_deposit, Withdraw |-> process_withdraw,
   SetStakingAuthority |-> process_set_staking_auth, SetOwner |-> process_set_owner,
   AddLiquidity |-> process_add_liquidity, SellstSOL |-> process_sell_stsol]

\* metacli has the owner of the tokens pay for the transaction, and so sign it.
FeePayer == {"user_authority"}

\* validate_owner: the authority signs, or as a multisig leaves it to the
\* accounts that follow.
validate_owner(n) ==
  IF n = 0 THEN <<S("authority")>> ELSE <<R("authority")>> \o Signers(n)

process_initialize_multisig(n) ==
  Takes(<<"multisig", "rent">>, {"multisig"}, {}) \o [i \in 1 .. n |-> R("signer")]
process_transfer(checked, n) ==
  Takes(IF checked THEN <<"source", "mint", "destination">>
                   ELSE <<"source", "destination">>,
        {"source", "destination"}, {}) \o validate_owner(n)
process_approve(checked, n) ==
  Takes(IF checked THEN <<"source", "mint", "delegate">> ELSE <<"source", "delegate">>,
        {"source"}, {}) \o validate_owner(n)
process_mint_to(n) ==
  Takes(<<"mint", "account">>, {"mint", "account"}, {}) \o validate_owner(n)
process_burn(n) ==
  Takes(<<"account", "mint">>, {"mint", "account"}, {}) \o validate_owner(n)
process_toggle_freeze_account(n) ==
  Takes(<<"account", "mint">>, {"account"}, {}) \o validate_owner(n)

TokenHandler(n) ==
  [InitializeMint |-> Takes(<<"mint", "rent">>, {"mint"}, {}),
   InitializeAccount |-> Takes(<<"account", "mint", "owner", "rent">>, {"account"}, {}),
   InitializeAccount2 |-> Takes(<<"account", "mint", "rent">>, {"account"}, {}),
   InitializeMultisig |-> process_initialize_multisig(n),
   Transfer |-> process_transfer(FALSE, n), TransferChecked |-> process_transfer(TRUE, n),
   Approve |-> process_approve(FALSE, n), ApproveChecked |-> process_approve(TRUE, n),
   Revoke |-> Takes(<<"source">>, {"source"}, {}) \o validate_owner(n),
   SetAuthority |-> Takes(<<"owned">>, {"owned"}, {}) \o validate_owner(n),
   MintTo |-> process_mint_to(n), MintToChecked |-> process_mint_to(n),
   Burn |-> process_burn(n), BurnChecked |-> process_burn(n),
   CloseAccount |-> Takes(<<"account", "destination">>, {"account", "destination"}, {})
                      \o validate_owner(n),
   FreezeAccount |-> process_toggle_freeze_account(n),
   ThawAccount |-> process_toggle_freeze_account(n)]

Handler(m) == IF m.program = "pool" THEN PoolHandler[m.sent.op]
                                    ELSE TokenHandler(m.signers)[m.sent.op]

-----------------------------------------------------------------------------
(***************************************************************************)
(* The list l as the handlers change it, for validator k, with balance n   *)
(* and epoch e.  Rejected when the handler returns an error.               *)
(***************************************************************************)
Position(l, k) == {i \in DOMAIN l.validators : l.validators[i].validator_account = k}

Cleared(l) ==
  IF l.version > 0 THEN Rejected ELSE [version |-> 1, validators |-> <<>>]

Pushed(l, k, n, e) ==
  IF l.version = 0 \/ Position(l, k) # {} THEN Rejected
  ELSE [l EXCEPT !.validators = Append(@,
          [validator_account |-> k, balance |-> n, last_update_epoch |-> e])]

Retained(l, k) ==
  IF Position(l, k) = {} THEN Rejected
  ELSE [l EXCEPT !.validators =
          Seqs!FoldLeft(LAMBDA kept, r : IF r.validator_account # k
                                         THEN Append(kept, r) ELSE kept, <<>>, @)]

Updated(l, k, n, e) ==
  LET stale == {i \in Position(l, k) : l.validators[i].last_update_epoch < e}
  IN IF stale = {} THEN Rejected
     ELSE [l EXCEPT !.validators = [i \in DOMAIN @ |->
             IF i \in stale
             THEN [@[i] EXCEPT !.balance = n, !.last_update_epoch = e] ELSE @[i]]]

\* Deposit and Withdraw.
Rebalanced(l, k, n) ==
  IF Position(l, k) = {} THEN Rejected
  ELSE [l EXCEPT !.validators = [i \in DOMAIN @ |->
          IF i \in Position(l, k) THEN [@[i] EXCEPT !.balance = n] ELSE @[i]]]

Changed(op, l, k, n, e) ==
  CASE op = "Initialize" -> Cleared(l)
    [] op = "AddValidatorStakeAccount" -> Pushed(l, k, n, e)
    [] op = "RemoveValidatorStakeAccount" -> Retained(l, k)
    [] op = "UpdateListBalance" -> Updated(l, k, n, e)
    [] op \in {"Deposit", "Withdraw"} -> Rebalanced(l, k, n)
    [] OTHER -> Rejected

-----------------------------------------------------------------------------
Message(program, ix, data, accounts, n) ==
  [program |-> program, sent |-> ix, data |-> data, accounts |-> accounts,
   signers |-> n, own |-> TRUE]

PoolInstructions ==
  {[op |-> op] : op \in DOMAIN PoolTag \ (WithAmount \cup {"Initialize"})}
    \cup [op : WithAmount, amount : Amounts]
    \cup [op : {"Initialize"}, fee : [denominator : Amounts, numerator : Amounts]]

\* Instructions that nobody has to authorize, and the others.
OpenInstructions ==
  [op : {"InitializeMint"}, decimals : 0 .. 1, mint_authority : Keys,
   freeze_authority : Keys \cup {<<>>}]
    \cup [op : {"InitializeAccount2"}, owner : Keys]
    \cup [op : {"InitializeAccount"}]

AuthorizedInstructions ==
  [op : {"SetAuthority"}, authority_type : DOMAIN AuthorityIndex,
   new_authority : Keys \cup {<<>>}]
    \cup [op : DOMAIN AmountTag, amount : Amounts]
    \cup [op : DOMAIN CheckedTag, amount : Amounts, decimals : 0 .. 1]
    \cup [op : DOMAIN PlainTag \ {"InitializeAccount"}]

BuildPool ==
  /\ message = NoMessage
  /\ \E ix \in PoolInstructions :
       message' = Message("pool", ix, serialize(ix), PoolConstructor[ix.op], 0)
  /\ UNCHANGED <<account, list>>

\* Authorized by a wallet (n = 0), or by n keys of a multisig.
BuildToken ==
  /\ message = NoMessage
  /\ \E n \in 0 .. MAX_SIGNERS :
       \E ix \in IF n = 0 THEN OpenInstructions \cup AuthorizedInstructions
                           ELSE AuthorizedInstructions :
         message' = Message("token", ix, pack(ix), TokenConstructor(n)[ix.op], n)
  /\ UNCHANGED <<account, list>>

MultisigAllowed(m, n) ==
  is_valid_signer_index(m) /\ is_valid_signer_index(n) /\ m <= n

BuildMultisig ==
  /\ message = NoMessage
  /\ \E m \in 0 .. MAX_SIGNERS + 1, n \in 0 .. MAX_SIGNERS + 1 :
       LET ix == [op |-> "InitializeMultisig", m |-> m]
       IN /\ MultisigAllowed(m, n)
          /\ message' = Message("token", ix, pack(ix), initialize_multisig(n), n)
  /\ UNCHANGED <<account, list>>

\* Another encoder: fewer bytes, or one more.
Reencode ==
  /\ message # NoMessage /\ message.own
  /\ \/ \E k \in 0 .. Len(message.data) - 1 :
          message' = [message EXCEPT !.data = First(@, k), !.own = FALSE]
     \/ \E b \in {0, 1, Base - 1} :
          message' = [message EXCEPT !.data = Append(@, b), !.own = FALSE]
  /\ UNCHANGED <<account, list>>

Decoded(m) == IF m.program = "pool" THEN deserialize(m.data) ELSE unpack(m.data)

\* The entrypoint decodes, and a handler that changes the list reads it,
\* changes it and writes it back; an error leaves the account as it was.
ProcessPool ==
  /\ message # NoMessage /\ message.program = "pool"
  /\ message' = NoMessage
  /\ \E k \in Keys, n, e \in Balances :
       LET op == Decoded(message).op
           new == Changed(op, deserialize_list(account), k, n, e)
       IN IF new # Rejected /\ CanSerialize(new)
          THEN /\ account' = serialize_list(new, account)
               /\ list' = Changed(op, list, k, n, e)
          ELSE UNCHANGED <<account, list>>

\* What the token program's handlers do is in the module SplToken.
ProcessToken ==
  /\ message # NoMessage /\ message.program = "token"
  /\ message' = NoMessage
  /\ UNCHANGED <<account, list>>

Init ==
  /\ message = NoMessage
  /\ account = [i \in 1 .. LEN |-> 0]
  /\ list = [version |-> 0, validators |-> <<>>]

Next ==
  BuildPool \/ BuildToken \/ BuildMultisig \/ Reencode \/ ProcessPool \/ ProcessToken

Spec == Init /\ [][Next]_vars

-----------------------------------------------------------------------------
(***************************************************************************)
(* Properties.                                                             *)
(***************************************************************************)

\* Both programs read back the instruction a constructor has put into bytes.
\* Bytes that are cut off or longer decode to that instruction or to an
\* error, never to another instruction or another argument.
NeverMisread ==
  message # NoMessage =>
    \/ Decoded(message) = message.sent
    \/ ~message.own /\ Decoded(message) = Rejected

\* Every account a handler takes is the one the constructor has put at that
\* place, it is writable where the handler or a program it invokes writes it,
\* and it signs where its signature is needed; the handler does not run out
\* of accounts.
AccountsInPlace ==
  message # NoMessage =>
    LET given == message.accounts
        taken == Handler(message)
    IN /\ Len(taken) <= Len(given)
       /\ \A i \in DOMAIN taken :
            /\ taken[i].role = given[i].role
            /\ taken[i].writable => given[i].writable
            /\ taken[i].signer => given[i].signer \/ given[i].role \in FeePayer

\* The list is read back as it was stored, through every order of
\* Initialize, Add, Remove, update, Deposit and Withdraw, with what longer
\* lists have left in the account behind the end, and when it is full.
ListReadsBack == deserialize_list(account) = list

=============================================================================
