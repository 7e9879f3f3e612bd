-------------------------- MODULE GuestCertificates --------------------------
(* The certificates of the routes inside a box.  The refresher fetches the   *)
(* bundle of the broker, makes the files of a directory match it, rebuilds   *)
(* the trust store from the directory and then changes the keystore of Java, *)
(* entry by entry.  The files are the only record of what was installed:     *)
(* they outlive the restarts of the box, and every step can fail or be the   *)
(* last one before a restart.                                                *)
EXTENDS Naturals, TLC

CONSTANTS
    Bundles,            \* what the broker may answer: sequences of certificates
    Torn,               \* the content of a file that is not written to its end
    MaxBundleChanges,
    MaxFailures,        \* steps that fail
    MaxBoxRestarts

VARIABLES
    installer,     \* where the refresher is
    wanted,        \* the bundle that it was given
    removed,       \* the numbers of the files that it found
    files,         \* the files of the directory, by the number in their name
    trusted,       \* what the trust store was built from
    keystore,      \* the entries of the keystore, by the number in their alias
    bundle,        \* what the broker answers now
    cutShort,      \* the last install did not reach the trust store
    everCutShort,  \* an install has failed or was cut off
    bundleChanges, failures, boxRestarts

directoryVars == <<wanted, removed, files>>
storeVars == <<trusted, keystore>>
boundVars == <<bundle, bundleChanges, boxRestarts>>
certificateVars ==
    <<installer, directoryVars, storeVars, boundVars, failures, cutShort, everCutShort>>

Numbers == UNION {DOMAIN b : b \in Bundles}

\* The values that the state is made of.
CertificatesTypeOK ==
    /\ installer \in {"fetch", "remove", "write", "rebuild", "java", "sleep"}
    /\ wanted \in Bundles /\ bundle \in Bundles
    /\ removed \subseteq Numbers
    /\ \A f \in {files, trusted, keystore} : DOMAIN f \subseteq Numbers
    /\ bundleChanges \in 0 .. MaxBundleChanges
    /\ failures \in 0 .. MaxFailures
    /\ boxRestarts \in 0 .. MaxBoxRestarts
    /\ {cutShort, everCutShort} \subseteq BOOLEAN

CertificatesInit ==
    /\ installer = "fetch"
    /\ wanted = <<>> /\ removed = {}
    /\ files = <<>> /\ trusted = <<>> /\ keystore = <<>>
    /\ bundle \in Bundles
    /\ bundleChanges = 0 /\ failures = 0 /\ boxRestarts = 0
    /\ cutShort = FALSE /\ everCutShort = FALSE

-----------------------------------------------------------------------------
SameCount(desired) == DOMAIN files = DOMAIN desired

\* Number, names and contents of the files are those of the bundle.
Same(desired) == files = desired

\* The broker may be out of reach, and then nothing happens.
refreshCertificates ==
    /\ installer = "fetch"
    /\ \/ /\ ~Same(bundle)
          /\ wanted' = bundle /\ removed' = DOMAIN files
          /\ cutShort' = TRUE
          /\ installer' = "remove"
       \/ /\ Same(bundle)
          /\ wanted' = bundle
          /\ installer' = "sleep"
          /\ UNCHANGED <<removed, cutShort>>
       \/ installer' = "sleep" /\ UNCHANGED <<wanted, removed, cutShort>>
    /\ UNCHANGED <<files, storeVars, boundVars, failures, everCutShort>>

\* An error ends install: the next refresh compares again.
InstallFails ==
    /\ installer \in {"remove", "write", "rebuild"}
    /\ failures < MaxFailures
    /\ failures' = failures + 1
    /\ installer' = "sleep"
    /\ everCutShort' = TRUE
    /\ UNCHANGED <<directoryVars, storeVars, boundVars, cutShort>>

\* The old files go one by one, in the order of their names.
removeFiles ==
    /\ installer = "remove"
    /\ \/ \E n \in DOMAIN files :
            /\ \A k \in DOMAIN files : n <= k
            /\ files' = [k \in DOMAIN files \ {n} |-> files[k]]
            /\ UNCHANGED installer
       \/ /\ DOMAIN files = {}
          /\ installer' = "write"
          /\ UNCHANGED files
    /\ UNCHANGED <<wanted, removed, storeVars, boundVars, failures, cutShort, everCutShort>>

\* Then the new ones are written in their order, each of them made empty first.
writeFiles ==
    /\ installer = "write"
    /\ \/ \E n \in DOMAIN wanted :
            /\ \A k \in 1 .. n - 1 : k \in DOMAIN files /\ files[k] = wanted[k]
            /\ \/ n \notin DOMAIN files /\ files' = files @@ (n :> Torn)
               \/ n \in DOMAIN files /\ files[n] = Torn /\ files' = [files EXCEPT ![n] = wanted[n]]
            /\ UNCHANGED installer
       \/ /\ files = wanted
          /\ installer' = "rebuild"
          /\ UNCHANGED files
    /\ UNCHANGED <<wanted, removed, storeVars, boundVars, failures, cutShort, everCutShort>>

\* update-ca-certificates reads the directory.
rebuildStore ==
    /\ installer = "rebuild"
    /\ trusted' = files /\ cutShort' = FALSE
    /\ installer' = "java"
    /\ UNCHANGED <<directoryVars, keystore, boundVars, failures, everCutShort>>

\* The entries of the files that were found and of the new ones go.
Deleted == removed \cup DOMAIN files

\* Then the new files are imported: one that fails is logged and left out.
refreshJavaKeystore ==
    /\ installer = "java"
    /\ \E imported \in SUBSET DOMAIN files :
         /\ keystore' = [n \in (DOMAIN keystore \ Deleted) \cup imported |->
                            IF n \in imported THEN files[n] ELSE keystore[n]]
         /\ failures' = failures + (IF imported = DOMAIN files THEN 0 ELSE 1)
         /\ failures' <= MaxFailures
    /\ installer' = "sleep"
    /\ UNCHANGED <<directoryVars, trusted, boundVars, cutShort, everCutShort>>

NextRefresh ==
    /\ installer = "sleep"
    /\ installer' = "fetch"
    /\ UNCHANGED <<directoryVars, storeVars, boundVars, failures, cutShort, everCutShort>>

BundleChanges ==
    /\ bundleChanges < MaxBundleChanges
    /\ bundleChanges' = bundleChanges + 1
    /\ bundle' \in Bundles \ {bundle}
    /\ UNCHANGED <<installer, directoryVars, storeVars, boxRestarts, failures, cutShort, everCutShort>>

\* The disk of the box keeps the files, the trust store and the keystore.
BoxRestarts ==
    /\ boxRestarts < MaxBoxRestarts
    /\ boxRestarts' = boxRestarts + 1
    /\ everCutShort' = (everCutShort \/ installer \notin {"fetch", "sleep"})
    /\ installer' = "fetch"
    /\ UNCHANGED <<directoryVars, storeVars, bundle, bundleChanges, failures, cutShort>>

CertificatesNext ==
    \/ refreshCertificates \/ removeFiles \/ writeFiles \/ rebuildStore
    \/ refreshJavaKeystore \/ InstallFails \/ NextRefresh
    \/ BundleChanges \/ BoxRestarts

-----------------------------------------------------------------------------
(* At rest the trust store was built from the files of the directory, and    *)
(* these are the bundle of the last answer, unless the last install was cut  *)
(* short: an install that starts over repairs whatever an earlier one left   *)
(* (writeCertificateFiles, install).  As long as no install was cut short    *)
(* the keystore holds nothing that is not in the directory.                  *)
StoreFollowsBundle ==
    installer = "sleep" /\ ~cutShort =>
        /\ trusted = files /\ files = wanted
        /\ ~everCutShort => \A n \in DOMAIN keystore :
                                n \in DOMAIN files /\ keystore[n] = files[n]
=============================================================================
