---------------------------- MODULE ImageVerify ----------------------------
(***************************************************************************)
(* Which signatures an image must have to be activated: Signature::verify  *)
(* (image_verify.cpp) and Activation::validateSignature (activation.cpp).  *)
(*                                                                         *)
(* The system has key types, directories that should hold a public key and *)
(* the name of a hash function.  One of them must have signed both the     *)
(* manifest and the public key of the image; that public key must have     *)
(* signed the image.  Each file is checked in a step of its own: the image *)
(* manager, another process, may remove the upload in between.             *)
(***************************************************************************)
EXTENDS FiniteSets

CONSTANTS KeyTypes,   \* names of directories
          SystemKeys, \* key pairs of those who sign for the system
          ImageKey,   \* the key pair made for the image
          None,       \* a file that is missing
          Garbage     \* a file that holds no PEM key, or an unknown hash name

ASSUME KeysAssumption ==
    /\ ImageKey \notin SystemKeys
    /\ "digest" \notin {None, Garbage}
    /\ {None, Garbage} \cap (SystemKeys \cup {ImageKey}) = {}
    /\ None # Garbage

VARIABLES config,    \* the files of every key type the system has
          manifest,  \* the manifest and its signature
          publickey, \* the public key of the image and its signature
          image,     \* the image and its signature
          present,   \* whether the upload is still there
          fieldMode, \* "on", "off", or what keeps it from being known
          pc,        \* what is done next
          todo,      \* the key types the loop has still to visit
          current,   \* the key type the loop is at
          outcome    \* what validateSignature returned, or "exception"

given == <<config, manifest, publickey, image, fieldMode>>
vars == <<given, present, pc, todo, current, outcome>>

Keys == SystemKeys \cup {ImageKey}

\* A signature names the key pair it was made with; None is no signature.
\* "hash" is a digest name or Garbage; a hashfunc or manifest without the tag
\* gives " ", which is no digest either.
Config == [hash : {"digest", Garbage, None}, key : SystemKeys \cup {Garbage, None}]

Init ==
    /\ \E types \in SUBSET KeyTypes :
        config \in [types -> {c \in Config : c # [hash |-> None, key |-> None]}]
    /\ manifest \in [signature : Keys \cup {None}, hash : {"digest", Garbage, None}]
    /\ publickey \in [key : {ImageKey, Garbage, None}, signature : Keys \cup {None}]
    /\ image \in [signature : Keys \cup {None}]
    /\ present = TRUE
    /\ fieldMode \in {"on", "off", "failure", "noService"}
    /\ pc = "construct"
    /\ todo = {}
    /\ current = None
    /\ outcome = "none"

\* The hash name in the manifest is None where there is no manifest.
ManifestThere == present /\ manifest.hash # None

(***************************************************************************)
(* verifyFile                                                              *)
(***************************************************************************)

\* The result of one call: "valid", "invalid", "failure" for InternalFailure,
\* or "error" for any other exception.  file_size throws where there is no
\* public key; the hash name is used after the key.
VerifyFile(there, signature, key, hash) ==
    IF ~there \/ signature = None THEN "failure"
    ELSE IF key = None THEN "error"
    ELSE IF key = Garbage \/ hash # "digest" THEN "failure"
    ELSE IF signature = key THEN "valid"
    ELSE "invalid"

\* Version::getValue closes the stream it could not open, which throws.
HashReadable(t) == config[t].hash # None

ManifestResult(t) ==
    VerifyFile(ManifestThere, manifest.signature, config[t].key, config[t].hash)
PublicKeyResult(t) ==
    VerifyFile(present /\ publickey.key # None, publickey.signature,
               config[t].key, config[t].hash)
ImageResult ==
    VerifyFile(present, image.signature, IF present THEN publickey.key ELSE None,
               manifest.hash)

(***************************************************************************)
(* Signature                                                               *)
(***************************************************************************)

Goto(step) == pc' = step

\* The constructor reads the manifest; where that throws, so does
\* validateSignature.
Construct ==
    /\ pc = "construct"
    /\ \/ ~ManifestThere /\ outcome' = "exception" /\ Goto("done")
       \/ ManifestThere /\ Goto("types") /\ UNCHANGED outcome
    /\ UNCHANGED <<given, present, todo, current>>

\* getAvailableKeyTypesFromSystem: none is an InternalFailure, which verify
\* turns into false.
FindKeyTypes ==
    /\ pc = "types"
    /\ todo' = DOMAIN config
    /\ Goto(IF DOMAIN config = {} THEN "rejected" ELSE "manifest")
    /\ UNCHANGED <<given, present, current, outcome>>

\* After the last key type the image is rejected.
NextOf(types) == IF types = {} THEN "rejected" ELSE "manifest"

\* The catch of the loop is for InternalFailure only.
Continues(result) == result \in {"invalid", "failure"}

\* The mutant of AfterManifest: one signature is enough.
AfterManifestImage == "image"

\* The public key of the image is checked once its manifest is valid.
AfterManifest == "publickey"

\* The key types come in the order of their names, which may be any.
CheckManifest ==
    /\ pc = "manifest"
    /\ \E t \in todo :
        LET result == IF HashReadable(t) THEN ManifestResult(t) ELSE "error"
        IN  /\ current' = t
            /\ todo' = todo \ {t}
            /\ \/ result = "valid" /\ Goto(AfterManifest)
               \/ result # "valid" /\ Continues(result) /\ Goto(NextOf(todo'))
               \/ result # "valid" /\ ~Continues(result) /\ Goto("rejected")
    /\ UNCHANGED <<given, present, outcome>>

CheckPublicKey ==
    /\ pc = "publickey"
    /\ LET result == PublicKeyResult(current)
       IN  \/ result = "valid" /\ Goto("image")
           \/ result # "valid" /\ Continues(result) /\ Goto(NextOf(todo))
           \/ result # "valid" /\ ~Continues(result) /\ Goto("rejected")
    /\ UNCHANGED <<given, present, todo, current, outcome>>

\* Any exception here makes verify return false.
CheckImage ==
    /\ pc = "image"
    /\ \/ ImageResult = "valid" /\ outcome' = "valid" /\ Goto("done")
       \/ ImageResult # "valid" /\ Goto("rejected") /\ UNCHANGED outcome
    /\ UNCHANGED <<given, present, todo, current>>

(***************************************************************************)
(* Activation::validateSignature                                           *)
(***************************************************************************)

\* fieldModeEnabled: an error reply is an InternalFailure and counts as field
\* mode; the error of a service that is not there leaves the function.
AskFieldMode ==
    /\ pc = "rejected"
    /\ outcome' = CASE fieldMode = "off"       -> "valid"
                    [] fieldMode = "noService" -> "exception"
                    [] fieldMode \in {"on", "failure"} -> "invalid"
    /\ Goto("done")
    /\ UNCHANGED <<given, present, todo, current>>

\* The image manager removes the upload.
Discard ==
    /\ pc # "done"
    /\ present
    /\ present' = FALSE
    /\ UNCHANGED <<given, pc, todo, current, outcome>>

Next == \/ Construct \/ FindKeyTypes \/ CheckManifest \/ CheckPublicKey \/ CheckImage
        \/ AskFieldMode \/ Discard

Spec == Init /\ [][Next]_vars

(***************************************************************************)
(* Properties                                                              *)
(***************************************************************************)

TypeOK ==
    /\ present \in BOOLEAN
    /\ pc \in {"construct", "types", "manifest", "publickey", "image", "rejected", "done"}
    /\ todo \subseteq DOMAIN config
    /\ pc = "manifest" => todo # {}
    /\ pc \in {"publickey", "image"} => current \in DOMAIN config
    /\ outcome \in {"none", "valid", "invalid", "exception"}
    /\ pc = "done" <=> outcome # "none"

\* What "Verify the Manifest and public key file signature using the public
\* keys available in the system first [...] continue the whole image
\* files signature validation using the image specific public key" (image_verify.hpp)
\* comes to, whatever the order of the checks.
SignedBy(t) ==
    /\ config[t].hash = "digest"
    /\ config[t].key \in SystemKeys
    /\ manifest.signature = config[t].key
    /\ publickey.signature = config[t].key
Signed ==
    /\ \E t \in DOMAIN config : SignedBy(t)
    /\ publickey.key = ImageKey
    /\ image.signature = ImageKey
    /\ manifest.hash = "digest"

\* In field mode only an image signed all through is activated: no mixture of
\* key types, of failures and of files that go while they are checked will do.
OnlySignedInField == outcome = "valid" /\ fieldMode # "off" => Signed
=============================================================================
