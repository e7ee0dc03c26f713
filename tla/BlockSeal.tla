------------------------------ MODULE BlockSeal ------------------------------
(***************************************************************************)
(* Sealing a header and verifying the seal (internal/state/block_seal.go)  *)
(* on the states that Safrole reaches.  Neither changes the state.         *)
(*                                                                         *)
(* Data abstraction.  A bandersnatch signature is the record of who signed *)
(* what in which context.  Its VRF output depends on the signer and the    *)
(* context alone and is the pair of the two.  A ticket's identifier is     *)
(* such an output: that of the ring member who made its proof.  Contexts   *)
(* are tuples.  An entry is what SealingKeySeries holds for the slot of    *)
(* the header: a ticket, or a validator's key.  A header is its content    *)
(* and its two signatures.                                                 *)
(***************************************************************************)
EXTENDS Safrole

\* Offenders never make up a whole validator set.
ASSUME SomeoneLeft == \A v \in Vectors : \E i \in DOMAIN v : v[i] # NullKey

-----------------------------------------------------------------------------
\* bandersnatch.Sign, OutputHash and Verify
Sign(key, context, data) == [signer |-> key, context |-> context, data |-> data]
OutputHash(sig) == <<sig.signer, sig.context>>
Verify(key, context, data, sig) == sig = Sign(key, context, data)

buildTicketSealContext(entropy, attempt) == <<"jam_ticket_seal", entropy, attempt>>
buildTicketFallbackContext(entropy) == <<"jam_fallback_seal", entropy>>
buildVRFContext(hash) == <<"jam_entropy", hash>>

\* The ring member behind an anonymous ticket: nobody has the zeroed key.
Owner(t) ==
    LET members == {t.ring[i] : i \in DOMAIN t.ring} \ {NullKey}
        likely == t.ring[(t.id % Len(t.ring)) + 1]
    IN  CHOOSE k \in members : likely \in members => k = likely

Identifier(t) == <<Owner(t), buildTicketSealContext(t.entropy, t.attempt)>>

\* The entries of the series, as getWinningTicketOrKey returns them.
Entries ==
    IF series.kind = "tickets"
    THEN {[kind |-> "ticket", ticket |-> t] : t \in series.tickets}
    ELSE {[kind |-> "key", key |-> series.ring[i]] : i \in DOMAIN series.ring}

\* The context of the seal; SealBlock and VerifyBlockSeal pass the fourth entropy.
SealContext(entry) ==
    IF entry.kind = "ticket" THEN buildTicketSealContext(eta[3], entry.ticket.attempt)
    ELSE buildTicketFallbackContext(eta[3])

encodeUnsealedHeader(content, vrf) == <<content, vrf>>

\* The checks that the key may seal: SignBlockWithTicket, SignBlockWithFallback.
MaySeal(entry, key) ==
    IF entry.kind = "ticket"
    THEN OutputHash(Sign(key, SealContext(entry), "")) = Identifier(entry.ticket)
    ELSE key = entry.key

\* What SignBlock returns for a key that may seal: the VRF signature is made from
\* the output of a seal without data, then the header with it is sealed.
SignBlock(content, entry, key) ==
    LET output == OutputHash(Sign(key, SealContext(entry), ""))
        vrf == Sign(key, buildVRFContext(output), "")
    IN  [content |-> content, vrf |-> vrf,
         seal |-> Sign(key, SealContext(entry), encodeUnsealedHeader(content, vrf))]

\* Mutant: the identifier of the ticket is not compared.
VerifyBlockSignatures_AnyTicket(header, entry) ==
    LET unsealed == encodeUnsealedHeader(header.content, header.vrf)
        candidates == IF entry.kind = "ticket" THEN {current[i] : i \in DOMAIN current}
                      ELSE {entry.key}
    IN  \E key \in candidates :
            /\ Verify(key, SealContext(entry), unsealed, header.seal)
            /\ Verify(key, buildVRFContext(OutputHash(header.seal)), "", header.vrf)

\* VerifyBlockSignatures: the key of a ticket is searched among the current
\* validators, and at most one verifies the seal.
VerifyBlockSignatures(header, entry) ==
    LET unsealed == encodeUnsealedHeader(header.content, header.vrf)
        candidates == IF entry.kind = "ticket" THEN {current[i] : i \in DOMAIN current}
                      ELSE {entry.key}
    IN  /\ entry.kind = "ticket" => OutputHash(header.seal) = Identifier(entry.ticket)
        /\ \E key \in candidates :
            /\ Verify(key, SealContext(entry), unsealed, header.seal)
            /\ Verify(key, buildVRFContext(OutputHash(header.seal)), "", header.vrf)

-----------------------------------------------------------------------------
AllKeys == UNION {{v[i] : i \in DOMAIN v} : v \in ValidatorSets}

\* Every entry of the sealing series that is not an offender's zeroed key has one
\* author, a current validator: that key and no other may seal, what it seals
\* verifies, and what another key signs the same way, or what is changed in the
\* header afterwards, does not.  Tickets were proved in the epoch before, so
\* this needs the entropies and the validator sets to have moved in step.
SlotsHaveOneAuthor ==
    \A entry \in Entries : entry # [kind |-> "key", key |-> NullKey] =>
        \E author \in {current[i] : i \in DOMAIN current} : \A key \in AllKeys :
            LET header == SignBlock("header", entry, key)
            IN  /\ MaySeal(entry, key) <=> key = author
                /\ VerifyBlockSignatures(header, entry) <=> key = author
                /\ ~VerifyBlockSignatures([header EXCEPT !.content = "other"], entry)
=============================================================================
