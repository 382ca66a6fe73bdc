---------------------------- MODULE HybridCrypto ----------------------------
(***************************************************************************)
(* The primitives of src/core as symbolic terms: a key pair is known by a  *)
(* name, a public key is the name of its key pair, and two terms are equal *)
(* exactly when the code's byte strings are equal (up to collisions of     *)
(* HKDF, HMAC and random values, which are taken as impossible).           *)
(***************************************************************************)

\* X25519: both ends obtain the same secret, whichever side computes it.
derive_shared_secret(private_key, peer_public) == {private_key, peer_public}

\* What encap_secret draws at random with `rand` and encrypts to `public_key`.
Ciphertext(public_key, rand) == [to |-> public_key, rand |-> rand]

\* ML-KEM decapsulation never fails: on a ciphertext made for another key pair
\* it returns a value only this key pair and this ciphertext yield, so the
\* secret is known by the two of them.
decapsulate(keypair, ciphertext) == [keypair |-> keypair, ciphertext |-> ciphertext]

\* encapsulate returns a ciphertext and the secret the key's owner will get.
encapsulate(peer_public, rand) ==
  LET ciphertext == Ciphertext(peer_public, rand)
  IN  [kem_ciphertext |-> ciphertext, pq_secret |-> decapsulate(peer_public, ciphertext)]

\* Mistake: HKDF fed with neither secret, so every encounter has one key.
combine_secrets_unkeyed(classical_secret, pq_secret) == [classical |-> {}, pq |-> {}]

\* HKDF over the two secrets.
combine_secrets(classical_secret, pq_secret) ==
  [classical |-> classical_secret, pq |-> pq_secret]

\* The session key of an undisturbed encounter between two ephemerals.
SharedKey(initiator_eph, responder_eph) ==
  combine_secrets(derive_shared_secret(responder_eph, initiator_eph),
                  encapsulate(initiator_eph, responder_eph).pq_secret)

hmac(key, parts) == [key |-> key, parts |-> parts]

\* ASCON-AEAD: the nonce is left out, no property tells two encryptions of one
\* token under one key apart.
encrypt(key, plaintext) == [key |-> key, plaintext |-> plaintext]

\* decrypt raises ValueError unless this holds.
Decrypts(key, ciphertext) == ciphertext.key = key
=============================================================================
