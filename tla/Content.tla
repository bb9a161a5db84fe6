------------------------------- MODULE Content -------------------------------
(* What the service serves under which key it finds it again: the SBOM of an
   image, the VEX data a scan applies, the keys of the asset cache, and the
   links that lead to what is served.  They share nothing: part says which one
   a behaviour is of, and the others stay as they began. *)
EXTENDS SpdxBundles

CONSTANTS Kernels, Images, SignedImages, \* see VexDocuments
          MaxRestarts                    \* see Profiles

VARIABLES part,
          image, documents, fetches, calls,                       \* VEX
          restarts, directory, published, listed, signing, built, \* keys
          page, opened                                            \* links

V == INSTANCE VexDocuments WITH Callers <- Clients, tag <- image, cached <- documents

K == INSTANCE Profiles

L == INSTANCE DownloadLinks

vexVars == <<image, documents, fetches, calls>>
keyVars == <<restarts, directory, published, listed, signing, built>>
linkVars == <<page, opened>>
allVars == <<vars, part, vexVars, keyVars, linkVars>>

ContentInit ==
    /\ Init /\ V!Init /\ K!Init /\ L!Init
    /\ part \in {"sbom", "vex", "keys", "links"}
    /\ part # "vex" => image \in SignedImages
    /\ part # "keys" => ~signing /\ ~published

ContentNext ==
    \/ part = "sbom" /\ Next /\ UNCHANGED <<vexVars, keyVars, linkVars>> /\ UNCHANGED part
    \/ part = "vex" /\ V!Next /\ UNCHANGED <<vars, keyVars, linkVars>> /\ UNCHANGED part
    \/ part = "keys" /\ K!Next /\ UNCHANGED <<vars, vexVars, linkVars>> /\ UNCHANGED part
    \/ part = "links" /\ L!Next /\ UNCHANGED <<vars, vexVars, keyVars>> /\ UNCHANGED part

ContentSpec == ContentInit /\ [][ContentNext]_allVars

\* The properties of the instances, for the behaviours of the whole.
VEXIsVerified == V!VEXIsVerified
KeyNamesAsset == K!KeyNamesAsset
KeySurvivesRestart == K!KeySurvivesRestart
LinksResolve == L!LinksResolve
=============================================================================
