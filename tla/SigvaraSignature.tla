--------------------------- MODULE SigvaraSignature ---------------------------
(***************************************************************************)
(* One payer's signature on an outcome, and who takes it: the operator it  *)
(* is posted to, which records the block it checked at; the operator that  *)
(* imports it, checking as of that block with as little old state as it    *)
(* can; and a reader with the SDK, checking at the recorded block.  The    *)
(* payer's address may gain code, lose it, and change what it answers at   *)
(* any block.                                                              *)
(*                                                                         *)
(* Bounds: MaxBlock blocks, MaxFaults reads that fail.  The timing rules,  *)
(* and an import's giving up, are in SigvaraOutcomes; the throttle on bad  *)
(* signatures of contracts is left out.                                    *)
(***************************************************************************)
EXTENDS Integers, Sequences

CONSTANTS
    Poster, Importer, Reader,
    Archive,          \* which of them have nodes that keep every block's state
    Kept,             \* how many blocks' state the other nodes keep
    MaxBlock, MaxFaults

SignatureAssumption ==
    /\ Archive \subseteq {Poster, Importer, Reader}
    /\ {Kept, MaxBlock} \subseteq Nat \ {0} /\ MaxFaults \in Nat

\* What a wallet may hand back: a signature by the payer's key that OpenZeppelin takes, one with v 0 or 1, the
\* malleable twin of one, or one by another key.
Signatures == {"canonical", "v01", "twin", "foreign"}

\* What an account's code may answer to this signature: the magic word, more after it, four bytes of it, something
\* else, or nothing, having reverted or run out of gas.
Codes == {"magic", "longer", "short", "other", "reverts", "starves"}

VARIABLES
    account,     \* by block, "none" or what the payer's code answers
    signature,   \* the signature sent, or "none"
    held,        \* the outcomes the operators took: [checkedAt, signer], or Nothing
    refused,     \* history: who refused it for good, checked at which block, with which head
    told,        \* what the reader was told of a record: [of, valid], or Nothing
    faults

vars == <<account, signature, held, refused, told, faults>>

Nothing == [none |-> TRUE]
Height == Len(account)

------------------------------------------------------------------------------
(* Nodes.                                                                  *)

\* An eth_call that fails, as ethers reports it: with revert data or not, and what the node, or ethers, said.
Refusals == {[code |-> "CALL_EXCEPTION", data |-> TRUE, said |-> "missing revert data"],
             [code |-> "CALL_EXCEPTION", data |-> FALSE, said |-> "refused"]}
Troubles == {[code |-> "CALL_EXCEPTION", data |-> FALSE, said |-> "missing revert data"],
             [code |-> "CALL_EXCEPTION", data |-> FALSE, said |-> "missing trie node"],
             [code |-> "TIMEOUT", data |-> FALSE, said |-> "timeout"]}

\* accountRefused: the account's own no, and not its node's.
AccountRefused(err) == err.code = "CALL_EXCEPTION" /\ (err.data \/ err.said = "refused")

\* Whether a node has the state of a block.
Keeps(who, block) == who \in Archive \/ block > Height - Kept

------------------------------------------------------------------------------
(* Checking a signature. A verdict is [valid, signer], or an RpcError, which *)
(* is this node's trouble and tried again.                                 *)

RpcError == [valid |-> FALSE, signer |-> "rpc_error"]

\* recover, recoversToPayer: by the payer's key, as OpenZeppelin's ECDSA takes it.
Recover == [valid |-> signature = "canonical", signer |-> "eoa"]

\* isValidSignature. Whatever follows the magic word is ignored; less than a word is a no.
Answered(code) ==
    CASE code \in {"magic", "longer"}      -> {[valid |-> TRUE, signer |-> "contract"]}
      [] code \in {"short", "other"}       -> {[valid |-> FALSE, signer |-> "contract"]}
      [] code \in {"reverts", "starves"}   ->
            {IF AccountRefused(e) THEN [valid |-> FALSE, signer |-> "contract"] ELSE RpcError : e \in Refusals}
Unanswered == {IF AccountRefused(e) THEN [valid |-> FALSE, signer |-> "contract"] ELSE RpcError : e \in Troubles}

\* verifySignature, verifyPaymentOutcome: everything read at one block. What may come of it, with a node that answers.
VerifySignature(who, block) ==
    IF ~Keeps(who, block) THEN {RpcError}
    ELSE IF account[block] = "none" THEN {Recover} ELSE Answered(account[block])

\* The same, with a node that fails at the code, or at the call.
VerifyFailing(who, block) ==
    {RpcError} \cup IF Keeps(who, block) /\ account[block] # "none" THEN Unanswered ELSE {}

\* verifyImported: no code at this node's head, no old state.
VerifyImported(who, block, head) ==
    IF account[head] = "none" THEN {Recover} ELSE VerifySignature(who, block)

------------------------------------------------------------------------------
(* The payer, the operators, and the reader.                               *)

Mine ==
    /\ Height < MaxBlock
    /\ \E c \in {"none"} \cup Codes : account' = Append(account, c)
    /\ UNCHANGED <<signature, held, refused, told, faults>>

\* signPaymentOutcome rewrites v, and hands over what its signer gave for an account, but for the signer's own
\* address only what recovers to it. Another library sends what the wallet gave.
Signed(raw, own) ==
    LET s == IF raw = "v01" THEN "canonical" ELSE raw
    IN IF own /\ s # "canonical" THEN {} ELSE {s}

Sign ==
    /\ signature = "none"
    /\ \E raw \in Signatures, own \in BOOLEAN : \E s \in Signed(raw, own) \cup {raw} : signature' = s
    /\ UNCHANGED <<account, held, refused, told, faults>>

\* What an operator does with a verdict on a signature checked at a block.
Settle(who, block, head, verdict) ==
    /\ IF verdict.valid THEN held' = [held EXCEPT ![who] = [checkedAt |-> block, signer |-> verdict.signer]]
                        ELSE UNCHANGED held
    /\ refused' = IF verdict.valid \/ verdict = RpcError THEN refused
                  ELSE refused \cup {[who |-> who, checkedAt |-> block, head |-> head]}
    /\ UNCHANGED <<account, signature, told>>

\* POST /attest, checked at this node's confirmed head.
Post ==
    /\ signature # "none" /\ held[Poster] = Nothing
    /\ \E head \in 1..Height :
        \/ \E v \in VerifySignature(Poster, head) : Settle(Poster, head, head, v) /\ UNCHANGED faults
        \/ \E v \in VerifyFailing(Poster, head) :
              faults < MaxFaults /\ faults' = faults + 1 /\ Settle(Poster, head, head, v)

\* An import waits for the recorded block.
Import ==
    /\ held[Poster] # Nothing /\ held[Importer] = Nothing
    /\ \E head \in held[Poster].checkedAt..Height :
        LET block == held[Poster].checkedAt IN
        \/ \E v \in VerifyImported(Importer, block, head) : Settle(Importer, block, head, v) /\ UNCHANGED faults
        \/ \E v \in {RpcError} \cup (IF account[head] = "none" THEN {} ELSE VerifyFailing(Importer, block)) :
              faults < MaxFaults /\ faults' = faults + 1 /\ Settle(Importer, block, head, v)

\* The reader asks of what an operator serves. A node that does not answer is an error, and tells it nothing.
Verify ==
    /\ told = Nothing
    /\ \E o \in {Poster, Importer} :
        /\ held[o] # Nothing
        /\ \/ \E v \in VerifySignature(Reader, held[o].checkedAt) :
                told' = (IF v = RpcError THEN Nothing ELSE [of |-> o, valid |-> v.valid]) /\ UNCHANGED faults
           \/ \E v \in VerifyFailing(Reader, held[o].checkedAt) :
                /\ faults < MaxFaults /\ faults' = faults + 1
                /\ told' = IF v = RpcError THEN Nothing ELSE [of |-> o, valid |-> v.valid]
    /\ UNCHANGED <<account, signature, held, refused>>

Init ==
    /\ \E c \in {"none"} \cup Codes : account = <<c>>
    /\ signature = "none" /\ held = [o \in {Poster, Importer} |-> Nothing]
    /\ refused = {} /\ told = Nothing /\ faults = 0

Next == Mine \/ Sign \/ Post \/ Import \/ Verify

Spec == Init /\ [][Next]_vars

------------------------------------------------------------------------------
(* What it should guarantee.                                               *)

\* What the contracts would say of the signature at a block.
Good(block) ==
    IF account[block] = "none" THEN signature = "canonical" ELSE account[block] \in {"magic", "longer"}

\* A reader checking a record that an honest operator serves, at the block it serves, is never told the signature
\* is bad: not for an outcome taken here, not for one imported, whatever became of the payer's account since.
ReaderAgrees == told = Nothing \/ told.valid

\* Nobody refuses a signature the contracts would take at the block it was checked at, and no node's failing to
\* answer is a refusal, but in the one case the import names: the account had code then and has none now, and its
\* key did not sign.
RefusedForItsOwn ==
    \A r \in refused :
        Good(r.checkedAt) =>
            /\ r.who = Importer /\ signature # "canonical"
            /\ account[r.checkedAt] # "none" /\ account[r.head] = "none"

SignatureInv == ReaderAgrees /\ RefusedForItsOwn

==============================================================================
