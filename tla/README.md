# libsmx in TLA+: models, checks and proofs

libsmx is a Rust implementation of the Chinese national (GM) cryptographic
algorithms (SM2, SM3, SM4, SM9, BLS, FPE) with a certificate layer (X.509/GM
certificates, requests, chains, CRLs, CMS) and a TLS provider for rustls.

The library is a set of data types and pure functions: there are no threads,
no files and no network inside it. What is hard to test is in three places:

* **streaming values** that keep state over a sequence of calls of any
  length (hashers, MACs, counters), and copies of them;
* **protocols** between parties that use the library (applicant, authority
  and verifier; two ends of a key exchange or of a TLS connection), with
  messages that arrive changed, late, reordered or re-encoded;
* **boundaries**: counters that wrap, lengths that just do or do not fit,
  search loops over names that may be cyclic.

The arithmetic on 256-bit numbers and the S-boxes are outside the reach of a
model checker. Everything above them is modelled: the curves, groups and field
tower over primes small enough to try every element, the modes over a block
cipher of which nothing but invertibility is known, the certificate layer over
signatures that verify under exactly one key, ID and message.

## Inventory

| component | source under `src/src` | state | operations | interacts with | correct when |
|---|---|---|---|---|---|
| SM3 hasher | `sm3/mod.rs`, `sm3/compress.rs` | chaining value, 64-byte buffer, fill, bit counter | new, update, finalize, finalize_reset, reset, digest, clone | everything that hashes | a context answers the hash of what it was fed, however it was cut |
| HMAC, HKDF, KDF, PBKDF2 | `sm3/mod.rs`, `sm3/hkdf.rs`, `kdf.rs`, `rustls_provider/hmac.rs` | two hashers; block counters | new, update, finalize; extract, expand | SM3, key exchange, TLS | streaming agrees with one-shot; counters do not wrap; outputs of different requests differ |
| SM4 | `sm4/cipher.rs` | round keys | encrypt_block, decrypt_block | modes | a permutation and its inverse |
| SM4 modes, padding | `sm4/modes.rs`, `sm4/padding.rs` | counters, chaining blocks, MAC accumulators | ECB, CBC, OFB, CFB, CTR, GCM, CCM, XTS, OCB, SIV, EAX, key wrap | SM4, TLS records | decryption inverts encryption at every length, key stream blocks are not repeated, what was changed is rejected |
| SM2 | `sm2/mod.rs`, `sm2/ec.rs`, `sm2/field.rs` | keys | sign, verify, encrypt, decrypt, KEM | certificates, CMS, TLS | what is signed verifies; the retry loops end |
| SM2 key exchange | `sm2/key_exchange.rs` | ephemeral keys, confirmation tags | exchange_a, exchange_b | two parties | both confirm only with the same key and the same peer |
| DER | `sm2/der.rs` | none | TLVs, lengths, integers, keys, signatures | certificates, CRL, CMS | decoding inverts encoding; a length is read as it was written |
| certificates | `sm2/cert.rs` | certificate fields | build, issue, self-sign, verify, encode, parse | requests, chains, CMS | what was signed verifies, also after DER |
| requests | `sm2/csr.rs` | request fields | create, verify, issue | applicant, authority | only a key's owner has it certified |
| chain verifier | `sm2/csr.rs` | the caller's certificates; a path | add_certificate(s), verify | certificates, clock | accepts exactly the trusted, ends always |
| revocation lists | `sm2/crl.rs` | serials, period | build, verify, is_revoked | certificates, CMS, clock | no current list misses an older revocation for ever |
| CMS | `sm2/cms.rs` | signers, attributes, certificates, CRLs | build, verify | certificates, CRL, clock | verdict and signing time of each signer are its own |
| BLS, threshold | `bls/*.rs` | shares | keygen, partial_sign, combine | participants | any t+1 shares make the group's signature, fewer none |
| FPE | `fpe/*.rs` | round keys | encrypt, decrypt | SM4 | a permutation of the domain |
| SM9 | `sm9/**` | master and user keys | extract, sign, verify, encrypt, decrypt | two parties | as for SM2, keyed by identities |
| rustls provider | `rustls_provider/*.rs` | transcript contexts, record keys, ticket key | hash contexts, record encrypters, key shares, signer and verifier, tickets | rustls, the peer | transcript forks are independent, records decrypt in order, each end takes what the other sends |

Hazards, each at its line and with the properties that watch it, are in
`PROJECT.json`.

## Plan

The order in which the project grows, by importance:

1. **SM3 streaming** (`HashService`, `Sm3Hasher`, `Sm3Stream`): done, proved.
2. **Certificates** (`GmCert`, `CertChain`, `CertIssue`): done; soundness and
   completeness of the chain verifier, proof of possession and vouching proved.
3. **CMS** (`Cms`): done, proved.
4. **SM4** (modes, padding, rounds, FPE) and its users: **TLS records and
   tickets**, **key derivation**: done, model-checked; proved are that whatever is
   sealed opens, that nothing forged does, that removing a padding is exact, that
   tickets come back exact, that records are delivered in order, and that derived
   keys stay apart.
5. **Public-key schemes** (SM2, key exchange, SM9, BLS) with their **DER**:
   done, model-checked.
6. **Revocation lists** under an authority and a clock: done, proved.
7. **Proofs**: every module's, as listed below. What is left to TLC, and why, is
   listed behind them.

## Modules

| module | what it is |
|---|---|
| `HashService` | abstract: contexts stand for messages; finishing answers `Hash(message)` |
| `Sm3Hasher` | `Sm3Hasher` as a record and one operator per method |
| `Sm3Stream` | the contexts a program (or rustls, through `Sm3Context`) keeps, and the calls on them |
| `Sm3StreamProofs` | type correctness, the invariant, the refinement |
| `GmCert` | certificates: what is signed, how it verifies, what DER keeps |
| `CertChain`, `CertChainProofs` | `CertificateChain`: collecting, path search, checks; that it accepts exactly the trusted |
| `CertIssue` | requests, issue, self-signing, transfer as DER; possession and vouching |
| `Revocation` | lists: builder, verification, lookups; the authority, the clock and the transport |
| `Pki`, `PkiProofs` | `CertIssue` and `Revocation` in one specification; what certificates and lists promise |
| `Cms`, `CmsProofs` | signed data: builder, transport, verifier; its promises |
| `SequenceFacts` | lemmas on numbers, sequences and recursive functions that the proofs share |
| `Blocks`, `Padding` | bytes as sums of unknowns, the block cipher as a permutation; PKCS#7/5 |
| `Sm4Modes`, `Sm4Aead` | ECB, CBC, OFB, CFB, CTR, XTS, key wrap; GCM, CCM, OCB, SIV, EAX |
| `Sm4Cipher`, `Fpe` | the rounds of the cipher; format-preserving encryption |
| `Sm4Session` | calls by name; callers that seal, and open what they are handed |
| `Tls13` | record layer and tickets of the TLS provider |
| `Derive`, `KeySchedule` | HMAC, HKDF, KDF, PBKDF2; a program that calls them |
| `Symmetric` | `Sm4Session`, `Tls13` and `KeySchedule` in one specification |
| `PrimitiveProofs` | strings, derived keys, chunks and padding; that what is derived from different inputs differs, and each mode undone by its counterpart |
| `Sm4ModesProofs` | sessions: that what is sealed opens, and unpadding is exact; what the tags of GCM and OCB, the MAC of CCM and key wrap tell of what went in |
| `SymmetricProofs` | that tickets give back, records arrive in order, nothing is forged and no block repeats; that each of the three users is alone what it is beside the others |
| `PkBase`, `Ec` | results, KDF, XOR; points, scalars and encodings of SM2's curve |
| `Sm2`, `KeyExchange` | signatures, encryption, KEM; the exchange and the ECDHE group |
| `Der` | DER by hand, and the provider's signer and verifier |
| `Sm9Fields`, `Sm9Groups` | the field tower; G1, G2, line functions, the map to the curve |
| `Sm9`, `Bls` | SM9 signatures and encryption; BLS, aggregates, threshold signing |
| `PkCalls`, `PkSpec` | calls by name; what they are to compute, from the textbook |
| `PkSession` | a caller, its random numbers, and the other side |
| `MC...` | constants of the runs; `MCSymmetric` and `MCKeys` also put parts that share no state side by side for a run |

### SM3 (`Sm3Hasher`, `Sm3Stream`, `HashService`)

A hasher record has the four fields of the struct. `Update` is the
composition of the three parts of `update()`: `TopUp` (lines 74-87),
`AbsorbBlocks` (90-95), `StoreRest` (98-101); `FinalizeInner` has both branches
of the padding. `&mut self` makes each call exclusive, so a call is one action.
`Fork` copies the record, stale buffer bytes included.

The compression function is the free constructor `state \o block`: two
chaining values are equal exactly when the same blocks went through in the same
order. A digest is therefore the padded message, and the refinement to
`HashService` is the standard's padding of the concatenation of everything the
context was fed: `log[h] = state \o the buffered bytes`. This is the strongest
statement about a streaming hash that does not depend on the compression
function. The block of 64 bytes becomes `BLOCK` cells, the length field `LENB`
cells with the number in the last, the 64-bit counter counts modulo `LenMod`.

### Certificates (`GmCert`)

A key stands for both halves of a pair; a signature records who signed what
under which SM2 ID. `Tbs`, `BuildAndSign`, `Encode` and `Parse` follow the code
field by field, including what the parser makes of the version (it takes the
first byte of the `[0]` field, which is the INTEGER tag and happens to be 2)
and of the extensions (it walks the `[3]` TLV itself and finds none).

### Chain verifier (`CertChain`)

The caller adds certificates and calls `verify` with anchors of its choice, as
often as it likes, while the clock advances. `verify` is stepwise: one step for
each iteration of `build_chain` (`Iteration`), then one in which the clock is
read once and every certificate is checked (`CheckAll`). The branch for
self-signed certificates is there, as in the code; it is never taken, because a
self-signed certificate on the path is found as its own issuer first (this is
part of the inductive invariant: status "built" implies an anchor at the end).

### Requests and issue (`CertIssue`)

Applicants create requests under any SM2 ID; the network may replace name and
key of a request (a damaged request is still well formed); an authority issues
from what it receives, with the key of its own certificate; everyone may send a
certificate on as DER. `requested` and `certified` are history variables.

### CMS (`Cms`)

Three groups of actions. The builder's calls change one record; `sign()` takes
the builder and is stepwise, one `SignOne` per signer, because each reads the
clock for its signing time (`create_digital_signature` is one step). Messages
are DER: on their way their content or attributes may be exchanged, certificates
left out, signers named by key as other implementations do, and the signatures
of one content put together in one message. The verifier parses, takes the
digest and the time once (`VerifyStart`), judges one signer per step
(`VerifySigner`, which carries `signing_time` along as the code does) and ends
with the conjunction of the verdicts. `signed` is a history variable; each
message also remembers its makers while it is as they made it, so that the
promise to them (`BuiltVerifies`) is stated without looking into signatures.

### Revocation lists (`Revocation`, `Pki`)

`CrlBuilder` is a record and one operator per method, `SignCrl` its `sign()`
with the error for a missing issuer or date; `VerifyComplete` is signature, then
validity, as in the code. An authority revokes serial numbers, with or without
reason and date of invalidity, time passes, and lists are signed of all that is
revoked by then. A relying party may be handed at any time any list ever signed,
or one with an entry missing, other dates, another algorithm or another signer
(`Received`). The verdict is a function of the list and the time, so that it is
no step of its own: `RevokedRefused` speaks of everything that may be received
now. Lists name serial numbers and share no state with requests: in `Pki` a
behaviour issues or revokes, which keeps both state spaces and loses nothing.

### Symmetric cryptography (`Blocks` up to `Symmetric`)

A byte is the set of unknowns whose XOR it is; a known byte is the set of its
one bits. XOR is the symmetric difference, so that everything that cancels in
the code cancels in the model, and nothing else does. The cipher is a
free constructor with an inverse; a product in GF(2^128) is a linear map known
by its factor's name. The modes are then translated loop by loop, and "opens"
means that the tags really are equal as terms. What this leaves out is
collisions by chance.

`Sm4Session` seals a message, perhaps a second one under the same key and
another nonce, and opens an envelope that may be either, a mixture of both or
one with a byte changed, added or removed. `Tls13` keeps the sequence numbers
of both ends over a network that may deliver any wire string it can make of
those it saw: one lost, repeated, out of order, altered, truncated or with
another's tag. rustls itself is external: it hands over the
sequence number, the nonce and the additional data, and closes the
connection at the first record that does not open. `KeySchedule` derives
keys and MACs, at one go or in pieces, and compares every two. The three share
no state; in `Symmetric` a behaviour is one of them. In the same way `MCSymmetric`
puts `Sm3Stream` beside `Symmetric`, and `MCKeys` puts `CertChain` beside
`PkSession`: one run, in which a behaviour belongs to one part and leaves the
variables of the other as they are.

EAX and the derivation functions bind less than their documents say. `Sm4Session`
offers an EAX envelope with aad and ciphertext exchanged besides the mixtures of
two messages; `PartlyBound` says what the tag does hold together (aad and ciphertext,
without their roles), and `EaxBinds`, which a run refutes, what the documents say. `DerivedApart` speaks of info and
salts that are taken in whole (`TakenWhole`), `NothingCut` of all.

### Public-key schemes (`PkBase` up to `PkSession`)

A *job* is a call or a chain of calls that build on one another (both
ephemeral keys of an exchange; master key and signature; the shares of a
quorum). `Draw` is one turn of the loop around the random number generator: it
ends the loop, fails, or the number is of no use and another is drawn.
`Receive` hands to the other side what was made or one of many changes to it: every
other signature in the range of the numbers, points off the curve and at
infinity, other keys, identities and messages, parts swapped.

The points, scalars, fields and encodings are computed, not assumed: SM2 over
the 37 points of a curve over 43 elements, with the code's windowed
multiplication and Jacobian formulas; G1, G2, the tower and the map to the curve
over 13 elements. The pairing protocols run over exponents, with the bilinear
map given by its law. The twist has more points than G2, and `G2Affine::from_bytes` checks
the equation of the curve only: a point is a pair `<<q, c>>`, in G2 when `c` is 0, and
the pairing with one outside G2 is whatever `Stray` says. Such points are offered as C1,
under every guess of what the pairing might be, and as the master public key; G1's curve has no points but
the group's. `PkSpec` says what is right from
the textbook: affine chord and tangent, the equations of the schemes tried over all
nonces, polynomials modulo w^12 + 2, what a DER string may mean. The numbers in
`Der` have two digits of base eight; tags and lengths are not scaled.

The calls are handed to `PkSession` as CONSTANT operators (`AttemptOf`, `ReceiveOf`),
which the configuration sets to the models of the code (`AttemptCall`,
`ReceiveCall`): the session is the same whatever the library computes, and TLC
evaluates a call once.

## What is checked

| run | states | what it shows |
|---|---|---|
| `symmetric` | 146 731 | hash contexts refine `HashService`, no full buffer between calls, the counter is exact modulo its width; opening inverts sealing in every mode at every length; nothing recombined or altered is opened; no key stream block twice; records in order; tickets; derived keys apart |
| `keys` | 230 568 | each public-key scheme accepts exactly what the textbook says, both sides agree, the groups and fields compute right, every loop can end, DER means one thing; accepted chains are trusted, rejected ones are not (for unambiguous names); the path and the loop bound; every verification of a chain returns |
| `cert_issue` | 80 572 | proof of possession; issuers keep vouching after DER; exactly the authority's current lists are accepted, and no revocation stays unknown for more than a period |
| `cms` | 2 456 798 | valid signers signed that content, are current and on no list; what is built verifies |
| `cert_parse` | violation | certificates with extensions do not survive DER |
| `cms_time` | violation | a signer is reported with another signer's time |
| `fpe_odd` | violation | format-preserving encryption of an odd number of bits loses a bit |
| `long_info` | violation | HKDF's info and PBKDF2's salt are cut off behind a limit of the code's own |
| `eax_parts` | violation | EAX binds neither the nonce nor the roles of aad and ciphertext |
| `key_bytes` | violation | bytes of no point become a public key |
| `sm9_long` | violation | an SM9 signature covers the first bytes of a long message only |
| `tls_der` | violation | the provider's verifier refuses its signer's DER; integers that are not positive are read |

A violation run checks one property, which says what a comment or document of the
repository says, and TLC finds a behaviour of the code that breaks it. The last five have a
companion each among the passing runs that says what does hold: `PartlyBound` for
`EaxBinds`, `DerivedApart` for `NothingCut`, `PointsExact` for `KeysAreChecked`,
`Sm9VerifyExact` for `WholeMessageSigned`, `DerExact` for `DerAsDocumented`.
`KeysAreChecked`, `WholeMessageSigned`, `DerAsDocumented`, `NothingCut` and `EaxBinds` run
with the jobs or calls they are about (`MCKeyJobs`, `MCSm9Jobs`, `MCTlsJobs`,
`MCCutDerivations`, `MCEaxCalls`) and are otherwise configured as `keys` and `symmetric`.

**Bounds.**

* `symmetric`, the hash contexts: two contexts (symmetric), blocks of 4 cells, a length field of
  2, at most 8 cells per context, five pieces that are empty, shorter than, as
  long as two and one longer than a block: every branch of `update()` and both of
  the padding occur, and the counter (modulo 40 bits) wraps at the fifth cell.
* `keys`, the chains: three certificates and two anchors out of a pool of six (a root,
  the same root with a new key, an intermediate, a cross certificate that closes a
  name loop, a leaf that expires, a leaf signed under another ID) and two
  instants: shorter and longer paths, loops, ambiguous names, expiry in the middle
  of a call. The theorems cover every number.
* `cert_issue`: two names, keys and IDs (symmetric in names and keys), two
  requests and three certificates: enough for an authority, a certificate below
  it and its DER copy. For revocation two serial numbers, five seconds, a period of
  two, two lists: one that lacks the second revocation and one that has it, each
  before, at and after its next update.
* `cms`: two signers, two embedded lists and two contents in all (enough for two
  signers of one message, for one message merged of two, and for a list that
  precedes the one that matters), certificates of two issuers with one serial
  number, one of which expires at the second instant; a message is altered at most
  once, and building, transport and verification take turns, which loses
  nothing as they share only the clock.
* `symmetric`, the ciphers and derivations: blocks of 3 bytes with four values for a counter byte, so that carries
  cross bytes and counters wrap within a message; messages of every length from 0
  to two blocks and a byte, of fresh, equal or zero bytes, so that every branch on a
  partial, whole or empty last block is taken; aad around a block and around
  CCM's buffer (6 for 512); key wrap of up to three halves; two messages; TLS: three
  records of two types, empty, ending in zero and longer than a block; hash blocks of 4
  and digests of 2 bytes, counters and cuts at 3 for 255 or 64, each exceeded by one.
  EAX envelopes are offered with aad and ciphertext exchanged, too.
* `keys`, the schemes: `P = 43`, `N = 37`, six bits for a scalar, windows of two bits; *all*
  random numbers of six bits, so that every one-in-2^256 case occurs: r = 0,
  s = 0, r + s = 0, the point at infinity, an all-zero mask, equal and opposite
  summands. SM9: order 11, hash values of four bits,
  a cofactor of 3, so that the twist has points outside G2; H2 takes two bytes, and
  messages are shorter and longer. Threshold signatures: any list of up to
  four participants, in any order, with repetitions and with fewer than are needed. Hashes are small functions
  chosen so that collisions with 0, weak masks and messages hashed to infinity
  occur. DER: numbers of two digits of base eight, lengths unscaled up to
  2^30, around each boundary of their forms.

`CHECK_DEADLOCK FALSE` stands where a behaviour ends: a job is done, an envelope
opened, the clock and the lists of a revocation at their bound.

**Fairness.** Only `CertChain` has a liveness property. A call of `verify` is
pure computation, so that a scheduled thread finishes it: weak fairness of
`BuildStep`, `BuildFailed` and `CheckAll`. No fairness is assumed of callers or
of the clock. The loops over random numbers end with probability one and by no
scheduling; fairness of `Draw` would promise what the code does not. `LoopsEnd`
says what can be said: in no state is every number rejected.

**Mutants.** Each property of a passing run has a variant of a modelled
definition (kept next to the original and marked "Variant") under which TLC
finds it violated: a counter that does not wrap, a buffer not flushed, stale
bytes not cleared, no or a weaker cycle check, an exclusive end of validity, the
request's signature not used, a list that never expires, the first revocation
list taken for the only one, a length left out of GHASH, a tweak not advanced, a
nonce without its sequence number, the identity left out of Z, a mask asked for
even when it is empty, a Lagrange coefficient without its sign, an integer
without its padding zero, and others: `PROJECT.json` lists them.

## What is proved

All theorems hold for every value of the constants under the named assumptions
(`Sm3BlockAssumption`: 0 < LENB < BLOCK; `LenModAssumption`;
`ByteAssumption`; `MessagesAssumption`; `MaxLenAssumption`; `IdAssumption`: there
is a default ID; `TimeAssumption`: instants are natural numbers;
`BoundAssumption`; `EmptyAssumption`: the empty content is a content;
`ConfigAssumption`: signers have certificates of version 3, as the library makes
them; `PeriodAssumption`; `ReasonAssumption`: a revocation has at most one reason
and one date; `BlockAssumption`: a cipher's block has room for a CCM
flag, a nonce and a counter, and its number of bytes is itself a byte;
`CallAssumption`: nonces have the lengths their types give them, the cipher takes
four words; `DeriveAssumption`: sizes are positive, a digest is no longer than a
block of the hash, HKDF's round counter is a byte; `DerivationAssumption` and
`OfferAssumption`: calls are ones the program has, and keys, salts and pieces are
strings; `LimitAssumption`: lengths fit the bytes that hold them, offered nonces
have the types of the calls, and a nonce for OCB is of bytes that are none of the
cipher's, the last one a known number, since its low bits choose a shift; CTR seals
one message under a key, from a counter whose known bytes are values of its bytes;
`IvAssumption`: an initial vector of CBC, CFB or OFB is not made of what the cipher
gave under the same key;
`RecordAssumption`: payloads are strings the cipher did not make, short
enough for counters and length fields). TLC evaluates them in the runs.

* `Sm3StreamProofs`: `TypeCorrect`, `MarkerFits`, `CounterRight` and
  `ImplementsService` (`StreamSpec => ServiceSpec`). The inductive invariant is
  `IInv = TypeOK /\ RoomForMarker /\ CounterMatches`: type correctness alone is
  not inductive enough, because the padding needs a free cell and the length
  field needs a counter that is a function of the chaining value. Two lemmas
  carry the refinement: `UpdateAppends` (the absorbed bytes after `update(d)`
  are those before, then `d`) and `FinalizePads` (`finalize_inner` is the
  standard's padding of the absorbed bytes).
* `CertChainProofs`: `TypeCorrect`, `FollowsNames`, `BoundNotMet`, `Soundness`.
  The inductive invariant says of a call in progress that its path is a `Walk`:
  it starts at the first certificate, is linked by names, its certificates are
  pairwise different certificates of the caller (the last one an anchor once the
  path is built), and the counter equals the number of links followed. By the
  pigeonhole principle (`OwnBound`) such a path is no longer than the caller's
  list, so that the code's loop bound is never met. `IterationWalks` shows that
  an iteration preserves it, and with it that the self-signed branch is dead.
  `Completeness` is the converse of soundness. `Explained` adds to the invariant why the
  search ended: until then no certificate on the path was issued by an anchor's
  name (`Searched`, preserved by `IterationSearches`), and it stopped at a name
  nobody has, at one already on the path, or at an anchor. In the first two cases the names on
  the path are closed: whoever could have signed one of its certificates is on it
  (`NoPathUntrusted`), none of it is an anchor, and trust, which spreads from
  anchors by signatures, never reaches it (`OutsideUntrusted`). In the third the
  next certificate of each on the path is, by its name, the only one that could
  have signed it, so that when the first is trusted they all are, and the checks
  find nothing (`PathTrusted`).
* `PkiProofs`, of certificates: `TypeCorrect`, `Possession`, `Vouching`. The inductive
  invariant adds `SignedWish`: whatever a request says by now, its signature was
  made for a key and a name that its maker asked for. A request that verifies
  therefore says what was asked (`VerifiedIsWanted`). `BuiltFields` and
  `ParsedFields` say what signing and DER keep; from them a parsed copy of a
  certificate is vouched for by whoever vouched for the original, and a parsed
  issuer vouches as the original did (`ParsedIsVouched`).
* `CmsProofs`: `StateTypeOK`, `ValidIsSigned`, `ValidIsNotRevoked`, `MadeIsValid`.
  None of these is inductive. The invariant says of every signature in
  circulation, altered or not, that it was made for attributes whose digest is
  of a content its key signed (`AllGenuine`); of the builder, that list and
  certificates go side by side and each signature so far is its signer's
  (`BuilderInStep`); of a message still as it was made, that its parts match its
  makers (`MessagesAsMade`); of a verification, that each result so far is the
  verdict on the signer of its place (`CheckInStep`). One lemma per action shows
  that it is preserved; the four properties follow from it.
* `PkiProofs`, of lists: `NoRevocationMissed`, from `ListsAreComplete`: every
  list is signed by the authority over the entries of the first `n` revocations,
  and what was revoked after them is not older than the list. The authority's
  clock and its records grow, and the order of dates makes this inductive. That
  an altered list is refused follows because it no longer is what was signed.
  `PkiIssues` shows that the combined specification implements `CertIssue`, so
  that the theorems about certificates hold of it, too (`PkiCertifies`).

* `PrimitiveProofs`: `KeysAreApart`. A digest is known by what was hashed, so that
  the theorem is about the strings the code puts together: that no two of
  its constructions ever feed the hash the same. Keys and inputs of two equal MACs can be
  read off them, because what stands before the input has the length of a
  block (`OuterSame`, `HmacSame`; two keys that differ only in zeros at the end,
  or in having been hashed by the caller, are one key, as `SameInput` says; info and salts that
  are cut off are outside the theorem, as `TakenWhole` says). HKDF's rounds
  are told apart by their counter, and info by what is between it and the previous
  round's output (`ExpandedSame`); those of the KDF by position (`CountedSame`).
  In PBKDF2 the first MAC is of a string that ends in a counter no byte of a digest can
  be, so that a chain never comes back to an earlier input (`InputsDiffer`);
  therefore nothing cancels in the XOR of its links (`XorFold`), and a block tells
  password, salt, number of iterations and index (`BlocksSame`). The invariant
  `ScheduleInv` adds that the context of a streaming MAC is that of its key fed with the
  pieces so far, so that cutting the input makes no difference.
* `Sm4ModesProofs`, with the modes one by one in `PrimitiveProofs`: `SealedIsOpened`:
  whatever a call seals, the opening call of its mode gives back (`RoundTrip`), for every size of block, message, tag, nonce and
  radix and every set of calls. The one hypothesis, `EvenWidths`, says that
  format-preserving encryption is given one bit or an even number of them; without it
  the theorem is false (run `fpe_odd`). The modes are taken apart
  one by one: a string is *clean* when no byte of it came out of the inverse
  cipher, and of clean strings blocks are made from which the cipher gives a block the
  inverse takes back (`Deciphered`). XOR restores what was added twice; messages are
  cut into chunks and put together again (`ChunksOfFlat`, `FlatOfChunks`), chunk by
  chunk in ECB, with the block before in CBC, CFB and OFB, with counters in CTR, GCM
  and CCM, with tweaks in XTS, with offsets in OCB; tags are
  recomputed over what was deciphered.
  What is done in steps and undone in the reverse order - key wrap, the rounds of the
  cipher, the halves of format-preserving encryption - goes by a least counterexample
  from the last step back. `Restored` says it of all envelopes made so far and is inductive
  together with `SessionInv`.
* `SymmetricProofs`: `TicketsGiveBack`: a session ticket gives back what was put into
  it, and what is no ticket that was made gives nothing (`TicketsExact`), for any number
  of tickets and whatever the network makes of them. It rests on a theorem about GCM,
  `GcmTagTells`: one byte of a tag tells nonce, aad and ciphertext. For a byte of the
  cipher's output tells its input (`MadeTells`), every block GHASH takes in leaves
  its own terms in each byte of the sum (`MulSpread`: a byte multiplied n times
  differs from one multiplied m times), and so the terms tell what was hashed
  (`HashedTells`, `GhashTells`). What the network makes of the strings it has seen is
  near two of them or ends in a byte that stood elsewhere (`AlteredAre`), and a byte of
  the mask stands nowhere but in the tag (`GcmSealWire`), so that what opens is one of
  them (`GcmOnly`). Lengths are taken to fit the fields that hold them, and
  payloads not to be made by the cipher (`RecordAssumption`).
* `SymmetricProofs`: `RecordsArriveInOrder`: what is delivered is the beginning of what
  was sent, and the record whose turn it is opens (`RecordsInOrder`). The invariant
  `RecordInv` says that the n-th string sent is the record of sequence number n - 1 and
  that the g delivered are the first g. It is inductive because of `RecordOnly`: what
  opens under some sequence number is one of the records sent, and was sealed under that
  number (the nonce is the static IV XOR the number, `RecordNonceTells`). For GCM this
  is the argument above; the aad, which holds the length, is hashed too. For CCM the tag
  is the CBC-MAC XOR the first key stream block, and one byte of it tells the last input
  of the chain. Where two chains end alike they are alike step by step backwards
  (`ChainTellsLong`), to the first block, which alone holds no output of the cipher, so
  that neither chain is the end of the other; it holds the nonce (`FramedTells`), the
  blocks after it length and message (`MacInputTells`), and what is near two records and
  opens is one (`CcmNearTells`). No counter block is an input of the MAC, by
  its flags (`CounterAtom`), so that masks and MAC cannot be taken for one another.
* `SymmetricProofs`: `NothingForged` (and `NothingForgedTogether` in `SymmetricSpec`,
  beside the other users): what opens by GCM, in either form, CCM, OCB or key unwrapping was
  sealed, and gives what was sealed (`Authentic`). Of the two messages of a session
  every mixture of nonces, aads, ciphertexts and tags may be offered, and every part
  with a byte changed, added or cut off. `KeptInv` says of the envelopes made so far
  that they are of one mode and one tag length, under distinct nonces, each what its
  call makes of its text; together with `SessionInv` it is inductive
  (`KeptHolds`). What is offered differs from an envelope in one part, or has each part
  of one of the two, and the rest is a statement about each mode (`OpenedWasSealed`):
  * GCM: one byte of a tag tells nonce, aad and ciphertext, as above; so does a tag
    that was cut (`GcmAuthentic`), and in the combined form the tag is the end
    of a string that may be cut elsewhere (`CombinedAuthentic`).
  * CCM: the tag is recomputed over what was deciphered. The key stream is of the nonce,
    so that a ciphertext under another one gives a text with cipher atoms, whose MAC is
    not in the tag (`CcmAuthentic`).
  * Key wrap: every step of unwrapping is undone, backwards from the check value; what
    was altered becomes a fresh block at the first step that sees it, and stays one
    to the last, where the check value is known (`WrapAuthentic`).
  * OCB (`OcbAuthentic`): the offsets carry a *mark* of the nonce (`MarkTells`) and a set
    of doubles of L that differs from place to place (`OffsetsApart`: the code's Gray
    sequence by `ntz`, by induction on the highest double in which two would agree). So no
    two blocks of any messages are enciphered alike. The tag block shows nonce,
    number of blocks, whether there is a rest and its padding, and the checksum
    (`TextShows`); it is never a block of the aad's hash, since it alone has the first
    double (`NotHashed`), and the hash tells the aad (`HashTells`). A block that was
    altered, moved or offered under another nonce is deciphered to something
    fresh (`OtherBlock`, `BlockFlipped`), which stays in the checksum, where a sealed
    message has none; a rest that was altered shows in the checksum byte by byte
    (`RestFlipped`), and cutting or adding moves the padding (`RestResized`).
  `KeyStreamUsedOnce` (and `KeyStreamUsedOnceTogether`): under one key no block is
  enciphered twice (`KeyStreamOnce`), while each message is within its counter. With
  GCM every input is the nonce and a number from one up, with CCM the nonce between
  flags and a number, so that number, flags or nonce tell two of them apart
  (`GcmOnce`, `CcmOnce`); the zero block of the hash key ends in zero. With CTR the
  carry is what matters (`CtrCountersDiffer`). A counter of known bytes is a number in
  base `Radix`, and `ctr_inc` adds one to it or goes from the last number to 0
  (`NumberNext`): of as many counters as there are numbers no two are the same.
  A counter with an unknown byte becomes one that is named after it, so that equal
  counters have equal ones before them, back to the first, which was not made
  so (`UnknownsDiffer`). The session holds at most two messages, of CTR
  one (`FewSealed`): what two counters a caller chose have in common is not up
  to the code.
  `BlocksNeverRepeat` (and `BlocksNeverRepeatTogether`): of the whole blocks of text
  in a ciphertext no two are equal, whatever blocks the text repeats (`BlocksDiffer`),
  in every mode but ECB. Already the first bytes differ (`ModeSpreads`). A key stream
  does this where its inputs do, because of two sums of a text and an image of the
  cipher each tells its image (`StreamDiffers`). In CBC, CFB and OFB the inputs
  come from the blocks before: where two are equal those before them were, back to the
  initial vector, which is no such image (`FeedsDiffer`, and here `IvAssumption`
  is needed). The tweaks of XTS are powers of alpha (`NextPower`), the offsets of OCB
  those of `NothingForged`, and SIV and EAX count on from a MAC, which is an image of
  the cipher and no known number (`ImageCounters`).
* `Sm4ModesProofs`: `UnpaddingIsExact`: what the unpadding of either kind
  accepts is the padding of what it gives, for every size of block and length
  (`UnpadIs`: as many bytes go as padding would have added, by arithmetic modulo the
  block). The invariant `SessionInv` says that whatever reaches the call is a
  string: envelopes are of one mode, mixing and altering keep it. In `SymmetricProofs`,
  `ModesAlone` and `DerivesAlone` show that `SymmetricSpec`, the users side by side, implements that of each
  user (`CipherSpec`, which the run checks, is `SymmetricSpec` or `StreamSpec`, one of them at a time), and `SymmetricSafety` and `SymmetricRestores` put the results together.

Induction over data is replaced by least counterexamples: a set of numbers that
holds 0 and the successors of its elements holds all (`UpTo`), because the first
exception would have none before it. `Recursion` and `FoldExists` build from this the
functions that recursive definitions and folds denote, so that proofs may use their
defining equations (`Trusted`, the builder's entries).

Only model-checked:

* `VerifyReturns`: liveness under fairness.
* `PartlyBound` of SIV and EAX. Of SIV it does not hold for all constants: a nonce of
  one block that ends in the number of bytes of a text of zeros stands for the
  marked block of that text in the sum, so that a tag of the one opens with the
  nonce of the other. Nonces of strangers' bytes, as the runs have them, do not
  do this.
* The properties of the public-key modules. They are computed over fields and
  curves of the sizes given, which were chosen for what happens at them (products
  that fit 32 bits, a group of prime order, masks that are zero). For every prime they
  would be theorems of algebra, about elliptic curves and not about this code.

## Where code and documentation disagree

* `sm2/cert.rs:824-835`: the extension loop of the parser walks the `[3]`
  element with its tag, so that no extension is ever found; the documentation
  says the parser extracts every field. A certificate with extensions no longer
  verifies after `from_der` (run `cert_parse`).
* `sm2/cms.rs:823`: `signing_time` survives from signer to signer (run
  `cms_time`).
* `fpe/fnr.rs:134`: an odd width of three bits or more loses a bit in every round
  (run `fpe_odd`); `fpe/mod.rs:4` promises every width from 1 to 128.

* `sm3/hkdf.rs:69`, `kdf.rs:130`: HKDF takes in 255 bytes of info, PBKDF2 64 of the salt,
  and what is longer is cut off without an error, although the standards they name
  (`hkdf.rs:10`, `kdf.rs:102`) know no limit (run `long_info`).
* `sm4/modes.rs:1635`: `omac` is handed a key for each part and uses none, so that the tag
  of EAX depends neither on the nonce nor on which part is aad and which is
  ciphertext; `modes.rs:1523` and `1586` promise the published mode (run `eax_parts`).
* `sm2/mod.rs:369-373` copies a public key without the check of the coordinates that the doc
  (366) promises; the point is checked where it is used (run `key_bytes`).
* `sm9/utils.rs:32`: H2 takes 512 bytes of a message; the comments (`utils.rs:27`,
  `sm9/mod.rs:284`, `365`) hash all of it (run `sm9_long`).
* `rustls_provider/sign.rs:132` hands out signatures as DER, as the comments
  (`sign.rs:131`, `sm2/der.rs:4`) say TLS wants it, while `verify_signature` (65-84), registered
  for the same scheme in `mod.rs:26-29`, takes exactly 64 raw bytes; the integration
  test converts one into the other. And `der.rs:97` counts the bytes of an integer
  where the comment above it asks for a positive one (run `tls_der`).

Not runs, but visible in the models:

* `sm2/csr.rs:94`: `verify()` of a request uses the default SM2 ID although
  `create` takes one, so that a request made under another ID is refused
  (`CsrVerifies`).
* `sm2/cms.rs:363`: the attributes are signed and verified under the `[0]` tag;
  the comment at line 245 (and RFC 5652) ask for the SET OF.
* `sm2/cms.rs:668`: `CmsVerifier` has settings that nothing reads: validity and lists
  are always checked.
* CMS: signed data without any signer is valid (`cms.rs:828`); a signer named by
  key identifier is judged by signature only; embedded lists are used unverified;
  the content type attribute is always "data".
* Chains: the anchor of a path is the first one of its name, so that of two roots
  with one name only one is tried; when no path is found the result's `chain` is
  the input list; `issue_certificate` does not compare the authority's key
  with its certificate (the model's authority uses its own).
* Lists: a list without next update never expires; `verify_signature` does not
  compare the list's issuer; a revocation in the second of `this_update` may be
  missing; reasons above 10 are dropped, and a reason is wrapped twice in an OCTET
  STRING (`crl.rs:555-575`).
* DER: `wrap_sequence` and `wrap_set` cut lengths of 65536 and more
  (`der.rs:474-483`); the certificate parser panics on an empty body or another
  tag than SEQUENCE (`cert.rs:769-780`).
* Modes: OCB does not check the length of its nonce and panics at 16 bytes
  (`modes.rs:1133`); SIV tells strings apart among those of equal lengths only;
  neither GCM nor CCM bounds the message by its counter. `PartlyBound` and
  `KeyStreamOnce` are stated accordingly.
* Derivation: the KDF's two inputs are concatenated; PBKDF2's block number is
  incremented once more after the last block (`kdf.rs:147`), which overflows where
  `dklen` is the longest allowed, a panic if overflow is checked. The model counts
  no further than the last block.
* Key exchange: a key of length zero fails on both sides (`key_exchange.rs:263`).
  Encryption of an empty message skips the test of the mask.
* SM9: points are checked to be on the twist, not in G2 (`groups/g2.rs:306-334`; the
  comment at `sm9/mod.rs:500` speaks of G2). What is opened under a C1 outside G2
  nobody encrypted: `Sm9DecryptExact` says nothing of it, nor `Sm9VerifyExact` of a master
  key outside. The comments at `utils.rs:44-81` promise more rounds than are used; a
  signature whose nonce is zero verifies. BLS: combining counts neither duplicates nor
  the threshold (`QuorumSigns` says what comes of it); the
  constant at `hash_to_curve.rs:147` is not the residue its comment names, and
  `fp12_cyclotomic_square` (`fp12.rs:374`) does not fit this tower and is not called,
  as `pairing.rs:140` says.

## Not modelled

`components` in `PROJECT.json` says for each part what is left out and why.

* The Miller loop and the hard part of the final exponentiation: the smallest
  curve of this family has numbers whose products do not fit TLC's 32-bit
  integers. Their building blocks (line functions, tower, easy part) are modelled.
* The S-boxes, the rounds of SM3, `expand_message_xmd`, Montgomery arithmetic on
  256-bit limbs: straight-line functions that the standards' vectors test, and
  TLC cannot enumerate.
* Reading and writing X.509 structures through the x509-cert crate, X.500 names,
  PEM, dates as text, display: conversions without a state, of an external
  crate for the most part. The certificate parser's handling of malformed DER
  is left out with them (`GmCert` has what it makes of well-formed ones).
* Constant-time code and the wiping of secrets: not properties of states. Errors
  and re-exports: no behaviour.
