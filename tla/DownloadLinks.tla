----------------------------- MODULE DownloadLinks -----------------------------
(***************************************************************************)
(* The links a user or a machine is given, and what happens when they are  *)
(* followed: the download page of a schematic, its installer image, and    *)
(* the PXE script, which names the next artifacts itself.  Whoever makes a *)
(* name and whoever parses it are different packages of the service; the   *)
(* tables of platforms and boards, and the methods that spell the names of *)
(* their artifacts, are a library's (external).                            *)
(***************************************************************************)
EXTENDS ArtifactPaths

VARIABLES page,     \* the links on the page or in the script that is read
          opened    \* the last link followed, with the profile it resolved to

vars == <<page, opened>>

Words == [metal |-> <<"metal">>, aws |-> <<"aws">>, nocloud |-> <<"nocloud">>, ocean |-> <<"digital", "ocean">>]
Platforms == DOMAIN Words
Architectures(p) == IF p = "ocean" THEN {"amd64"} ELSE Arches
SecureBootSupported(p) == p = "nocloud"
BootMethods(p) == CASE p = "metal" -> {"iso", "disk", "pxe"} [] p = "nocloud" -> {"iso", "disk", "pxe"} [] OTHER -> {"disk"}
DiskSuffixes(p) == IF p = "ocean" THEN <<"raw", "gz">> ELSE <<"raw", "xz">>
\* The cloud platforms that older versions do not know.
CloudPlatforms(v) == IF v = "v1.4" THEN {"aws", "ocean"} ELSE Platforms \ {"metal"}

\* The versions from a board's MinVersion on: of a board without one, all.
BoardVersions == [rpi_generic |-> Versions, rpi_5 |-> {"v1.14"}]
Boards(v) == {b \in DOMAIN BoardVersions : v \in BoardVersions[b]}
\* The image of a board, which had the board's name before there were overlays.
BoardImagePath(board, v) ==
    Path(IF v \in SupportsOverlay THEN <<"metal", "arm64">> ELSE <<"metal", board, "arm64">>, <<"raw", "xz">>)

Requests == [target : {"metal", "cloud", "sbc"}, platform : Platforms, board : DOMAIN BoardVersions,
             arch : Arches \cup {"riscv64"}, version : Versions, secureBoot : BOOLEAN]

\* A link: where it leads, the name it spells, what it is offered as, and whether
\* the list of versions has its version for what it is an image of.
Link(route, path, kind, p, req) ==
    [route |-> route, version |-> req.version, path |-> path, listed |-> TRUE,
     offer |-> [kind |-> kind, platform |-> p, arch |-> req.arch, secureBoot |-> req.secureBoot]]

Suffixed(req) == IF req.secureBoot THEN <<"secureboot">> ELSE <<>>
PlatformWords(p, req) == Words[p] \o <<req.arch>> \o Suffixed(req)
Image(path, kind, p, req) == Link("image", path, kind, Name(Words[p]), req)

MetalExtraAssets(req) ==
    LET part(words, suffixes, kind) == Image(Path(words, suffixes), kind, "metal", req)
        uki == part(PlatformWords("metal", req) \o <<"uki">>, <<"efi">>, "uki")
    IN IF req.secureBoot THEN {uki}
       ELSE {uki, part(<<"kernel", req.arch>>, <<>>, "kernel"),
             part(<<"cmdline">> \o PlatformWords("metal", req), <<>>, "cmdline"),
             part(<<"initramfs", req.arch>>, <<"xz">>, "initramfs")}

BootMethodAssets(p, method, req) ==
    LET words == PlatformWords(p, req) IN
    CASE method = "iso" -> {Image(Path(words, <<"iso">>), "iso", p, req)}
      [] method = "pxe" -> {Link("pxe", Path(words, <<>>), "cmdline", Name(Words[p]), req)}
      [] method = "disk" ->
           {Image(Path(words, DiskSuffixes(p)), "image", p, req)}
           \cup IF req.target = "metal" /\ ~req.secureBoot
                THEN {Image(Path(words, <<"qcow2">>), "image", p, req)} ELSE {}

PlatformOf(req) == IF req.target = "cloud" THEN req.platform ELSE "metal"

InstallerImage(req) ==
    LET p == PlatformOf(req)
        unified == req.version \in SupportsUnifiedInstaller
    IN Link("registry",
            Path((IF unified THEN Words[p] ELSE <<>>) \o <<"installer">> \o Suffixed(req), <<>>),
            "installer", IF unified THEN Name(Words[p]) ELSE "metal", req)

\* The requests the page refuses.
Offerable(req) ==
    /\ req.arch \in Arches
    /\ req.secureBoot => req.version \in SupportsSecureBoot
    /\ CASE req.target = "sbc" -> ~req.secureBoot /\ req.arch = "arm64" /\ req.board \in Boards(req.version)
         [] req.target = "cloud" -> /\ req.platform \in CloudPlatforms(req.version)
                                    /\ req.arch \in Architectures(req.platform)
                                    /\ req.secureBoot => SecureBootSupported(req.platform)
         [] OTHER -> TRUE

BootAssets(req) ==
    IF req.target = "sbc"
    THEN {[Image(BoardImagePath(req.board, req.version), "image", "metal", req)
              EXCEPT !.listed = req.version \in SupportsOverlay]}
    ELSE UNION {BootMethodAssets(PlatformOf(req), method, req) : method \in BootMethods(PlatformOf(req))}

\* Every asset under /image has its checksums and its signature beside it.
WithSidecars(link) ==
    IF link.route # "image" THEN {link}
    ELSE {link} \cup {[link EXCEPT !.path.suffixes = Append(@, s)] : s \in Sidecars}

Assets(req) ==
    {InstallerImage(req)}
    \cup UNION {WithSidecars(link) :
                   link \in BootAssets(req) \cup (IF req.target = "metal" THEN MetalExtraAssets(req) ELSE {})}

Init == page = {} /\ opened = <<>>

Offer(req) ==
    /\ Offerable(req)
    /\ page' = Assets(req) /\ opened' = <<>>

\* The names the script sends the machine to.
Script(link, profile) ==
    LET next == [arch |-> profile.arch, secureBoot |-> profile.secureBoot, version |-> link.version]
        words == (IF profile.platform = "digital-ocean" THEN Words.ocean ELSE <<profile.platform>>) \o <<profile.arch>>
    IN IF profile.secureBoot
       THEN {Link("image", Path(words \o <<"secureboot", "uki">>, <<"efi">>), "uki", profile.platform, next)}
       ELSE {Link("image", Path(<<"kernel", profile.arch>>, <<>>), "kernel", "metal", next),
             Link("image", Path(<<"initramfs", profile.arch>>, <<"xz">>), "initramfs", "metal", next)}

FollowImage(link) ==
    /\ link.route = "image"
    /\ opened' = <<link, ParseArtifactPath(SplitArtifactPath(link.path))>>
    /\ UNCHANGED page

FollowPXE(link) ==
    LET profile == ParseFromPath([link.path EXCEPT !.words = <<"cmdline">> \o @]) IN
    /\ link.route = "pxe"
    /\ opened' = <<link, profile>>
    /\ page' = IF profile = Invalid THEN page ELSE Script(link, profile)

PullInstaller(link, arch) ==
    LET requested == GetRequestedImage(link.path.words) IN
    /\ link.route = "registry" /\ link.offer.arch = arch
    /\ opened' = <<link, IF requested = <<>> THEN Invalid
                         ELSE InstallerProfile(requested[2], arch, requested[1])>>
    /\ UNCHANGED page

\* An iPXE client writes its own name of the architecture into the link.
Substitute(link) ==
    LET words == [i \in DOMAIN link.path.words |-> IF link.path.words[i] = "amd64" THEN "x86_64" ELSE link.path.words[i]] IN
    /\ link.route = "pxe" /\ link.path.words # words
    /\ page' = {[link EXCEPT !.path.words = words]}
    /\ UNCHANGED opened

Next ==
    \/ \E req \in Requests : Offer(req)
    \/ \E link \in page : FollowImage(link) \/ FollowPXE(link) \/ Substitute(link)
    \/ \E link \in page, arch \in Arches : PullInstaller(link, arch)

Spec == Init /\ [][Next]_vars

\* Downloads and PXE scripts spell names that the image endpoint, the PXE endpoint
\* and the registry parse back into what was offered: the kind, the platform, the
\* architecture and Secure Boot (Links.Assets, PXEHandler.Serve, ParseFromPath).
\* The exception is the image of a board of a version without overlays: the list
\* of versions for boards leaves these out, the endpoint of the links does not,
\* and the board's name in the link is not parsed any more.
LinksResolve ==
    opened # <<>> /\ opened[1].listed =>
        LET offer == opened[1].offer
            profile == opened[2]
        IN /\ profile.kind = offer.kind /\ profile.platform = offer.platform
           /\ profile.arch = offer.arch /\ profile.secureBoot = offer.secureBoot
=============================================================================
