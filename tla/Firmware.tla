------------------------------ MODULE Firmware ------------------------------
(***************************************************************************)
(* layer1-talanton/wallet/hardware: a firmware verifier with the vendors' keys, *)
(* revocations, advisories and firmware database, which a program asks for a    *)
(* newer version, its image and a verdict on it; the update manager; and the     *)
(* signing session of a hardware wallet (a GenericHardwareWallet; the manager of  *)
(* wallets finds no devices to hand one out for).                             *)
(*                                                                          *)
(* The verifier of the update manager is private and nothing is ever loaded into *)
(* it: it stays as it was constructed, while the state below is that of a       *)
(* verifier a program owns, as the tests do.                                  *)
(*                                                                          *)
(* An image is a number, its hash the same number: hashes order the table of    *)
(* known firmware.  The hash 0 is what a malformed entry of the database file  *)
(* leaves, and the image 0 is none.  A version is a number; 0 stands for one    *)
(* that ParseSemVer refuses.                                                 *)
(***************************************************************************)
EXTENDS Integers, Sequences, FiniteSets, SequencesExt

CONSTANTS
    BuiltInVendor,  \* the vendors that the constructor enters, without keys
    VendorKeySets,  \* <<vendor, set of keys>>: what AddVendorKeys and key files hold
    DatabaseFiles,  \* sequences of entries of the firmware database
    Advisory,       \* <<vendor, version>>: advisories that may be published
    DeviceVendor,   \* the vendor of the device at hand
    HardenedBit,    \* 2^31: half the indices of a derivation path
    PathText,       \* the numbers that a path may be written with
    MaxSigned       \* bound on the signing requests

ASSUME FirmwareAssumption == HardenedBit \in Nat \ {0} /\ MaxSigned \in Nat

VARIABLES
    verifier,       \* a FirmwareVerifier: keys per vendor, revoked <<vendor, key>>, known hash to entry, advisories
    update,         \* the program that asks it: how far it is, with which version and image
    device,         \* what that program runs: the last image it was told is VALID, with its version
    managed,        \* history: the images that the update manager installed
    hwStatus,       \* the connection status of the wallet
    hwSigned        \* history: the signed requests
firmwareVars == <<verifier, update, device, managed, hwStatus, hwSigned>>

-----------------------------------------------------------------------------
(* Versions that do not parse are equal to all others *)
CompareSemVer(v, w) == IF v = 0 \/ w = 0 \/ v = w THEN 0 ELSE IF v < w THEN -1 ELSE 1

InHashOrder(v) == SetToSortSeq(DOMAIN v.known, <)

(* The first entry of the vendor in hash order, unless a later one is newer; none if there is none *)
LatestVersion(v, vendor) ==
    FoldLeft(LAMBDA best, h :
                IF v.known[h].vendor = vendor /\ (best = <<>> \/ CompareSemVer(v.known[h].version, best[1]) > 0)
                THEN <<v.known[h].version>> ELSE best,
             <<>>, InHashOrder(v))

(* CheckLatestVersion: the versions, one at most, that are newer *)
Newer(v, vendor, current) ==
    {n \in {LatestVersion(v, vendor)} : n # <<>> /\ CompareSemVer(n[1], current) > 0}

(* The first entry in hash order *)
GetFirmwareInfo(v, vendor, version) ==
    SelectSeq(InHashOrder(v), LAMBDA h : v.known[h].vendor = vendor /\ v.known[h].version = version)

Keys(v, vendor) == {k \in v.keys[vendor] : <<vendor, k>> \notin v.revoked}

VerifyFirmware(v, image, vendor) ==
    CASE vendor \notin DOMAIN v.keys -> "UNKNOWN_VENDOR"
      [] vendor \in DOMAIN v.keys /\ image \notin DOMAIN v.known -> "UNTRUSTED"
      [] OTHER ->
           IF v.known[image].signature \notin {<<k, image>> : k \in Keys(v, vendor)} THEN "INVALID_SIGNATURE"
           ELSE IF <<vendor, v.known[image].version>> \in v.advisories THEN "EXPIRED" ELSE "VALID"

VerifyFirmwareUpdate(v, image, vendor, current) ==
    LET status == VerifyFirmware(v, image, vendor) IN
    IF status # "VALID" THEN status
    ELSE IF current = 0 \/ v.known[image].version = 0 THEN "ERROR"
    ELSE IF CompareSemVer(v.known[image].version, current) < 0 THEN "EXPIRED" ELSE "VALID"

(* An entry needs a vendor, a version text and a hash, given or of its image.  A given hash is not *)
(* compared with the image                                                                        *)
Loaded(table, entry) ==
    LET hash == IF entry.hash = -1 THEN entry.image ELSE entry.hash IN
    IF entry.hash = -1 /\ entry.image = 0 THEN table
    ELSE [h \in DOMAIN table \cup {hash} |-> IF h = hash THEN entry ELSE table[h]]

-----------------------------------------------------------------------------
(* The constructor enters the vendors without a key *)
FirmwareVerifier == [keys |-> [v \in BuiltInVendor |-> {}], revoked |-> {}, known |-> <<>>, advisories |-> {}]

InitFirmware ==
    /\ verifier = FirmwareVerifier /\ managed = {}
    /\ device = [image |-> 0, version |-> 1] /\ update = [stage |-> "idle", version |-> 0, image |-> 0]
    /\ hwStatus = "DISCONNECTED" /\ hwSigned = <<>>

programVars == <<update, device, managed>>
walletSessionVars == <<hwStatus, hwSigned>>

(* Mutant: new keys of a vendor make its revocations forgotten *)
AddVendorKeys_Forget(v, vendor, keys) ==
    [v EXCEPT !.keys = [w \in DOMAIN @ \cup {vendor} |-> IF w = vendor THEN keys ELSE @[w]],
              !.revoked = {r \in @ : r[1] # vendor}]
AddVendorKeys(v, vendor, keys) ==
    [v EXCEPT !.keys = [w \in DOMAIN @ \cup {vendor} |-> IF w = vendor THEN keys ELSE @[w]]]

(* A file names keys; an entry that is left with none is passed over *)
LoadVendorKeys ==
    /\ \E e \in VendorKeySets : e[2] # {} /\ verifier' = AddVendorKeys(verifier, e[1], e[2])
    /\ UNCHANGED <<programVars, walletSessionVars>>

RevokeVendorKey ==
    /\ \E e \in VendorKeySets : \E k \in e[2] : verifier' = [verifier EXCEPT !.revoked = @ \cup {<<e[1], k>>}]
    /\ UNCHANGED <<programVars, walletSessionVars>>

LoadFirmwareDatabase ==
    /\ \E file \in DatabaseFiles : verifier' = [verifier EXCEPT !.known = FoldLeft(Loaded, @, file)]
    /\ UNCHANGED <<programVars, walletSessionVars>>

AddSecurityAdvisory ==
    /\ \E a \in Advisory : verifier' = [verifier EXCEPT !.advisories = @ \cup {a}]
    /\ UNCHANGED <<programVars, walletSessionVars>>

(* The program asks for a newer version, then for the entry of that version, which needs an *)
(* image, then for the verdict on the image                                                 *)
CheckLatestVersion ==
    /\ update.stage = "idle"
    /\ \E n \in Newer(verifier, DeviceVendor, device.version) :
          update' = [stage |-> "offered", version |-> n[1], image |-> 0]
    /\ UNCHANGED <<verifier, device, managed, walletSessionVars>>

FetchImage ==
    /\ update.stage = "offered"
    /\ LET found == GetFirmwareInfo(verifier, DeviceVendor, update.version)
           image == IF found = <<>> THEN 0 ELSE verifier.known[found[1]].image IN
       update' = [update EXCEPT !.stage = IF image = 0 THEN "idle" ELSE "loaded", !.image = image]
    /\ UNCHANGED <<verifier, device, managed, walletSessionVars>>

VerifyAndRun ==
    /\ update.stage = "loaded" /\ update' = [update EXCEPT !.stage = "idle"]
    /\ device' = IF VerifyFirmwareUpdate(verifier, update.image, DeviceVendor, device.version) = "VALID"
                 THEN [image |-> update.image, version |-> verifier.known[update.image].version] ELSE device
    /\ UNCHANGED <<verifier, managed, walletSessionVars>>

(* FirmwareUpdateManager::InstallUpdate only answers; it looks the image up in its own verifier, *)
(* the vendor is the one of the entry, and no versions are compared                               *)
InstallUpdate(image) ==
    /\ managed' = IF /\ image \in DOMAIN FirmwareVerifier.known
                     /\ VerifyFirmware(FirmwareVerifier, image, FirmwareVerifier.known[image].vendor) = "VALID"
                  THEN managed \cup {image} ELSE managed
    /\ UNCHANGED <<verifier, update, device, walletSessionVars>>

FirmwareStep ==
    \/ LoadVendorKeys \/ RevokeVendorKey \/ LoadFirmwareDatabase \/ AddSecurityAdvisory
    \/ CheckLatestVersion \/ FetchImage \/ VerifyAndRun
    \/ \E image \in {e.image : e \in UNION {ToSet(file) : file \in DatabaseFiles}} : InstallUpdate(image)

-----------------------------------------------------------------------------
(* A segment of a path is a number and a mark; the number is cut to 32 bits *)
Index(segment) ==
    LET n == segment.number % (2 * HardenedBit) IN
    IF segment.hardened /\ n < HardenedBit THEN n + HardenedBit ELSE n
ParsePath(text) == [i \in DOMAIN text |-> Index(text[i])]

(* The text of no segments is "m", without the slash that "m/" has: parsing it again fails *)
Bare == <<[number |-> -1, hardened |-> FALSE]>>
Segment(index) == [number |-> index % HardenedBit, hardened |-> index >= HardenedBit]
PathToString(path) == IF path = <<>> THEN Bare ELSE [i \in DOMAIN path |-> Segment(path[i])]

(* What follows "m/" *)
PathTexts == UNION {[1 .. n -> [number : PathText, hardened : BOOLEAN]] : n \in 0 .. 2}

Connect == hwStatus' = "CONNECTED" /\ UNCHANGED hwSigned
Disconnect == hwStatus' = "DISCONNECTED" /\ UNCHANGED hwSigned
UnlockWithPin(length) ==
    /\ hwStatus # "DISCONNECTED" /\ length >= 4 /\ hwStatus' = "CONNECTED" /\ UNCHANGED hwSigned

(* One signature for each input, with the key of the path at its place *)
SignTransaction(inputs, paths) ==
    /\ Len(hwSigned) < MaxSigned /\ UNCHANGED hwStatus
    /\ hwStatus = "CONNECTED" /\ Len(inputs) = Len(paths)
    /\ hwSigned' = Append(hwSigned, [i \in DOMAIN inputs |->
                      [input |-> inputs[i], text |-> paths[i], key |-> PathToString(ParsePath(paths[i]))]])

WalletSessionStep ==
    /\ UNCHANGED <<verifier, programVars>>
    /\ \/ Connect \/ Disconnect
       \/ \E n \in {3, 4} : UnlockWithPin(n)
       \/ \E p, q \in PathTexts : SignTransaction(<<1, 2>>, <<p, q>>)

-----------------------------------------------------------------------------
FirmwareTypeOK ==
    /\ BuiltInVendor \subseteq DOMAIN verifier.keys
    /\ update.stage \in {"idle", "offered", "loaded"}
    /\ update.stage = "loaded" => update.image # 0
    /\ hwStatus \in {"DISCONNECTED", "CONNECTED", "LOCKED"}

(* However keys, revocations, advisories and the database change between the questions of an update, *)
(* an image that is run bears, at that moment, the signature of a key of its vendor that was never    *)
(* revoked, over that very image, and is not older than what ran; revocations outlast new keys.  The   *)
(* update manager installs nothing at all, whatever is loaded: nothing reaches its verifier            *)
InstalledIsSigned ==
    /\ verifier.revoked \subseteq verifier'.revoked
    /\ device' # device =>
          LET entry == verifier.known[device'.image] IN
          /\ entry.signature[2] = device'.image
          /\ entry.signature[1] \in verifier.keys[DeviceVendor]
          /\ <<DeviceVendor, entry.signature[1]>> \notin verifier.revoked
          /\ <<DeviceVendor, device'.version>> \notin verifier.advisories
          /\ device'.version >= device.version
    /\ managed' = {}

(* The text of a path names one key: what it is written as again parses to the same path, but for   *)
(* the path of no segments, which does not parse again, and two inputs are signed with one key      *)
(* exactly if their paths are the same                                                             *)
PathsAreKeys ==
    \A s \in DOMAIN hwSigned : \A i, j \in DOMAIN hwSigned[s] :
        LET parsed(n) == ParsePath(hwSigned[s][n].text)
            key(n)    == hwSigned[s][n].key
        IN  /\ parsed(i) = <<>> \/ ParsePath(key(i)) = parsed(i)
            /\ key(i) = key(j) <=> parsed(i) = parsed(j)

(* What a device runs and what it signs with is what was asked for *)
FirmwareIsTrusted == []PathsAreKeys /\ [][InstalledIsSigned]_firmwareVars
=============================================================================
