------------------------------- MODULE SignerHook -------------------------------
(***************************************************************************)
(* The signer hook (issuance/signer.rs, issuance/device.rs): what the host  *)
(* signs with the holder's key, and how its signature is put in place.  The *)
(* library builds the bytes, never verifies the signature, only its length. *)
(* A signature is the key it was made with, what it is over and its length. *)
(***************************************************************************)
EXTENDS Mdoc

SigningInput(ceremony, over, audience, nonce) ==
  [ceremony |-> ceremony, over |-> over, audience |-> audience, nonce |-> nonce]

\* build_pop_jwt: the public members of the holder's key, the issuer, its nonce.
PopInput(holder, audience, nonce, iat) ==
  SigningInput("Oid4vciProof", [jwk |-> holder.jwk, aud |-> audience, nonce |-> nonce, iat |-> iat], audience, nonce)

\* build_kb_jwt, over the hash of the presentation it is appended to.
KbInput(request, iat, hash) ==
  SigningInput("KeyBinding", [aud |-> request.audience, nonce |-> request.nonce, iat |-> iat, sdHash |-> hash],
               request.audience, request.nonce)

\* build_device_signature.
DeviceInput(request, transcript, docType, nameSpaces) ==
  SigningInput("DeviceSignature", <<transcript, docType, nameSpaces>>, request.audience, request.nonce)

SignatureLength == 64
\* check_sig_len, before anything is assembled.
HasLength(signature) == signature.length = SignatureLength

\* The key an assembled signature verifies under: none if it is over something else.
VerifiesUnder(input, signature) == IF signature.over = input.over THEN signature.by ELSE Absent

AssembledPop(input, signature) == [payload |-> input.over, by |-> VerifiesUnder(input, signature)]
AssembledKb(input, signature) ==
  [aud |-> input.over.aud, nonce |-> input.over.nonce, iat |-> input.over.iat, sdHash |-> input.over.sdHash,
   crit |-> Absent, alg |-> "ES256", by |-> VerifiesUnder(input, signature)]
\* DeviceSignatureBuild::assemble: a detached COSE_Sign1.
AssembledDevice(input, signature) ==
  [crit |-> {}, alg |-> "ES256", detached |-> TRUE, by |-> VerifiesUnder(input, signature),
   over |-> input.over, formed |-> TRUE]
==============================================================================
