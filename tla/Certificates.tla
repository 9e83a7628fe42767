---------------------------- MODULE Certificates ----------------------------
(***************************************************************************)
(* p2p/certificate_rotation.cpp and tls_connection.cpp: a certificate and its    *)
(* key in two files, written one after the other while a thread looks at them,   *)
(* the TLS context that is loaded from them when the certificate has another     *)
(* end of validity than the one known, and a server connection made from it.     *)
(*                                                                          *)
(* The callback of a rotation is TLSConnection::LoadCertificate.  A file is      *)
(* <<>> while it is missing or short.  OpenSSL is used as the code relies on it:  *)
(* a handshake fails without a certificate and the key of it.                  *)
(***************************************************************************)
EXTENDS Integers, Sequences

CONSTANTS
    Days,           \* the validities that are asked for
    MaxDays,        \* 36500
    Checker,        \* the detached threads of RotationLoop
    MaxCerts        \* bound on the certificates that are made

ASSUME CertificatesAssumption == Days \subseteq Nat /\ MaxDays \in Nat /\ MaxCerts \in Nat

VARIABLES
    certPem,       \* server.crt: <<[id, until]>>
    keyPem,        \* server.key: <<id>>
    making,         \* GenerateSelfSigned under way: its stage and certificate
    certs,          \* history: the ends of validity of all certificates, by id
    current,        \* current_cert_, <<>> before Init
    rotating,       \* running_
    checker,        \* each thread: where it is
    context,        \* server_ctx_: the ids of its certificate and key, 0 for none
    looked,         \* history: a check has begun after the last change of the files
    brokenOff,      \* history: a generation failed, or repeated an end of validity
    tls             \* a connection: its state and what it took from the context
certVars == <<certPem, keyPem, making, certs, current, rotating, checker, context, looked, brokenOff, tls>>

NoPair == [cert |-> 0, key |-> 0]
Idle == [stage |-> "none", id |-> 0]

InitCertificates ==
    /\ certPem = <<>> /\ keyPem = <<>> /\ making = Idle /\ certs = <<>> /\ current = <<>>
    /\ rotating = FALSE /\ checker = [c \in Checker |-> "none"] /\ context = NoPair
    /\ looked = FALSE /\ brokenOff = FALSE /\ tls = [state |-> "closed", pair |-> NoPair]

rotationVars == <<current, rotating, checker, context, tls>>

-----------------------------------------------------------------------------
(* GenerateSelfSigned: the key file is opened, which empties it, and written, then the certificate *)
Generate ==
    /\ making = Idle /\ Len(certs) < MaxCerts
    /\ \E days \in Days :
          /\ days # 0 /\ days <= MaxDays
          /\ certs' = Append(certs, days)
          /\ brokenOff' = (brokenOff \/ \E i \in DOMAIN certs : certs[i] = days)
    /\ making' = [stage |-> "key", id |-> Len(certs) + 1]
    /\ UNCHANGED <<certPem, keyPem, looked, rotationVars>>

(* The file of this stage is opened, then closed with what was to be in it *)
OpenFile ==
    /\ making.stage \in {"key", "cert"}
    /\ CASE making.stage = "key"  -> keyPem' = <<>> /\ UNCHANGED certPem
         [] making.stage = "cert" -> certPem' = <<>> /\ UNCHANGED keyPem
    /\ making' = [making EXCEPT !.stage = IF @ = "key" THEN "keyOpen" ELSE "certOpen"] /\ looked' = FALSE
    /\ UNCHANGED <<certs, brokenOff, rotationVars>>

CloseFile ==
    /\ making.stage \in {"keyOpen", "certOpen"}
    /\ LET stage == IF making.stage = "keyOpen" THEN "key" ELSE "cert"  id == making.id IN
       /\ CASE stage = "key"  -> keyPem' = <<id>> /\ UNCHANGED certPem
            [] stage = "cert" -> certPem' = <<[id |-> id, until |-> certs[id]]>> /\ UNCHANGED keyPem
       /\ making' = IF stage = "key" THEN [making EXCEPT !.stage = "cert"] ELSE Idle
    /\ looked' = FALSE
    /\ UNCHANGED <<certs, brokenOff, rotationVars>>

(* A file cannot be opened or written, or the process ends *)
BreakOff ==
    /\ making # Idle /\ making' = Idle /\ brokenOff' = TRUE
    /\ UNCHANGED <<certPem, keyPem, certs, looked, rotationVars>>

GenerateStep == Generate \/ OpenFile \/ CloseFile \/ BreakOff

-----------------------------------------------------------------------------
fileVars == <<certPem, keyPem, making, certs, brokenOff>>

(* Init, and the first load of the context *)
InitRotation ==
    /\ current = <<>> /\ certPem # <<>> /\ keyPem # <<>> /\ making = Idle
    /\ current' = certPem
    /\ context' = [cert |-> certPem[1].id, key |-> keyPem[1]]
    /\ looked' = TRUE
    /\ UNCHANGED <<fileVars, rotating, checker, tls>>

(* A thread that Stop has not reached in its sleep goes on after the next Start, beside the new one *)
StartRotation ==
    /\ current # <<>> /\ ~rotating /\ rotating' = TRUE
    /\ \E c \in Checker : checker[c] = "none" /\ checker' = [checker EXCEPT ![c] = "asleep"]
    /\ UNCHANGED <<fileVars, looked, current, context, tls>>

StopRotation ==
    /\ rotating /\ rotating' = FALSE
    /\ UNCHANGED <<fileVars, looked, current, checker, context, tls>>

At(c, from, to) == checker[c] = from /\ checker' = [checker EXCEPT ![c] = to]

EndLoop(c) ==
    /\ ~rotating /\ At(c, "asleep", "none")
    /\ UNCHANGED <<fileVars, looked, current, rotating, context, tls>>

(* CheckAndRotate: the certificate is read to compare the ends of validity, *)
Check(c) ==
    /\ rotating
    /\ IF certPem # <<>> /\ certPem[1].until # current[1].until
       THEN At(c, "asleep", "differs") ELSE At(c, "asleep", "asleep")
    /\ looked' = TRUE
    /\ UNCHANGED <<fileVars, current, rotating, context, tls>>

(* read again by LoadCertificate, *)
LoadCertificate(c) ==
    /\ IF certPem = <<>> THEN At(c, "differs", "asleep") /\ UNCHANGED current
       ELSE At(c, "differs", "changed") /\ current' = certPem
    /\ UNCHANGED <<fileVars, looked, rotating, context, tls>>

(* and a third time by the callback, which then reads the key.  A certificate drops a key that is not *)
(* its own from the context; a key is taken only with its certificate                                 *)
UseCertificate(c) ==
    /\ IF certPem = <<>> THEN At(c, "changed", "asleep") /\ UNCHANGED context
       ELSE LET id == certPem[1].id IN
            At(c, "changed", "key") /\ context' = [cert |-> id, key |-> IF context.key = id THEN id ELSE 0]
    /\ UNCHANGED <<fileVars, looked, current, rotating, tls>>

UsePrivateKey(c) ==
    /\ At(c, "key", "asleep")
    /\ context' = IF keyPem = <<context.cert>> THEN [context EXCEPT !.key = context.cert] ELSE context
    /\ UNCHANGED <<fileVars, looked, current, rotating, tls>>

RotationStep ==
    \/ InitRotation \/ StartRotation \/ StopRotation
    \/ \E c \in Checker : EndLoop(c) \/ Check(c) \/ LoadCertificate(c) \/ UseCertificate(c) \/ UsePrivateKey(c)

-----------------------------------------------------------------------------
tlsOthers == <<fileVars, looked, current, rotating, checker, context>>

(* SSL_new takes the certificate and key that the context has now *)
WrapSocket == tls.state = "closed" /\ tls' = [state |-> "wrapped", pair |-> context] /\ UNCHANGED tlsOthers

PerformHandshake ==
    /\ tls.state = "wrapped" /\ tls.pair.cert # 0 /\ tls.pair.cert = tls.pair.key
    /\ tls' = [tls EXCEPT !.state = "connected"] /\ UNCHANGED tlsOthers

CloseTls == tls.state # "closed" /\ tls' = [state |-> "closed", pair |-> NoPair] /\ UNCHANGED tlsOthers

TlsStep == WrapSocket \/ PerformHandshake \/ CloseTls

CertificatesStep == GenerateStep \/ RotationStep \/ TlsStep

-----------------------------------------------------------------------------
CertificatesTypeOK ==
    /\ making.stage \in {"none", "key", "keyOpen", "cert", "certOpen"}
    /\ checker \in [Checker -> {"none", "asleep", "differs", "changed", "key"}]
    /\ (\E c \in Checker : checker[c] # "none") => current # <<>>
    /\ tls.state = "connected" => tls.pair.cert = tls.pair.key

(* Whatever a generation and the checks, even of two threads at once, read of one another's half-done  *)
(* work: when all is quiet and a check has begun since the files last changed, the certificate in use   *)
(* is the one on disk and the context holds the key of it, unless a generation was broken off or         *)
(* repeated an end of validity; nothing is known that was not on disk.                                 *)
RotationSettles ==
    /\ (making = Idle /\ looked /\ ~brokenOff /\ (\A c \in Checker : checker[c] \in {"none", "asleep"})) =>
          /\ current = certPem
          /\ context = [cert |-> current[1].id, key |-> current[1].id]
    /\ current # <<>> => current[1].until = certs[current[1].id]
=============================================================================
