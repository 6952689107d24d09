---------------------------- MODULE SandboxCopy ----------------------------
(***************************************************************************)
(* RepoSandbox.from_local (tools/sandbox.py): the repository is copied to  *)
(* a new directory under the sandbox root by shutil.copytree, which lists  *)
(* a directory, makes its copy and then goes through the entries listed.   *)
(* A path is a sequence of names; files have no contents here.             *)
(***************************************************************************)
EXTENDS Naturals, SequencesExt

CONSTANTS
    Source,      \* the path of the repository
    File,        \* the paths of the files in it, special files and links included
    Folder,      \* the paths of its directories, itself included
    Ignored,     \* names that are not copied
    Root,        \* paths that settings.sandbox_root may be
    MaxPath,     \* the names in the longest path that the system allows
    Unreliable   \* paths that may not be read, written, or copied at all

Name == STRING
Path == Seq(Name)

(* The name that mkdtemp makes up, "repo_" and a random suffix.            *)
CopyName == "repo_copy"

(* The repository is a directory with all that is in it, and the sandbox   *)
(* root a path at which there is a directory or nothing, in which no copy  *)
(* has that name yet; of the names that are ignored none begins like it.   *)
ASSUME SandboxAssumption ==
    /\ MaxPath \in Nat
    /\ File \cup Folder \subseteq Path /\ File \cap Folder = {}
    /\ Source \in Folder
    /\ \A p \in File \cup Folder :
         /\ IsPrefix(Source, p)
         /\ \A i \in Len(Source) .. Len(p) - 1 : SubSeq(p, 1, i) \in Folder
    /\ Root \subseteq Path
    /\ \A r \in Root :
         /\ Len(r) < MaxPath
         /\ \A i \in 1 .. Len(r) : SubSeq(r, 1, i) \notin File
         /\ \A p \in File \cup Folder : ~IsPrefix(Append(r, CopyName), p)
    /\ CopyName \in Name \ Ignored
    /\ Unreliable \subseteq Path

VARIABLES
    root,     \* the sandbox root of this process
    files,    \* the files there are
    folders,  \* the directories there are
    stack,    \* the calls of copytree, the current one first
    errors,   \* whether one of them could not copy something
    copy      \* "none", "copying", "copied" or "failed"

copyVars == <<root, files, folders, stack, errors, copy>>

Destination == Append(root, CopyName)

(* The directories that root.mkdir(parents=True) sees to.                  *)
Parents == {SubSeq(root, 1, i) : i \in 1 .. Len(root)}

-----------------------------------------------------------------------------

(* Faulty: the names are ignored at the top of the repository only.        *)
ListedIgnoringAtTop(path, there) ==
    {Last(p) : p \in {q \in there : q # <<>> /\ Front(q) = path}}
      \ (IF path = Source THEN Ignored ELSE {})

(* The entries of a directory that are to be copied.                       *)
Listed(path, there) ==
    {Last(p) : p \in {q \in there : q # <<>> /\ Front(q) = path}} \ Ignored

(* root.mkdir() and mkdtemp(); copytree() then lists the repository.       *)
CreateCopy ==
    /\ copy = "none"
    /\ folders' = folders \cup Parents \cup {Destination}
    /\ stack' = <<[from |-> Source, to |-> Destination,
                   left |-> Listed(Source, files \cup folders')]>>
    /\ copy' = "copying"
    /\ UNCHANGED <<root, files, errors>>

(* root.mkdir(), mkdtemp() or the listing of the repository fails.         *)
CannotBegin ==
    /\ copy = "none" /\ {Source, root} \cap Unreliable # {}
    /\ \E made \in 0 .. Len(Destination) :
         folders' = folders \cup {SubSeq(Destination, 1, i) : i \in 1 .. made}
    /\ errors' = TRUE /\ copy' = "failed"
    /\ UNCHANGED <<root, files, stack>>

Top == Head(stack)

(* The current call is done with an entry of its list.                     *)
Without(name) == <<[Top EXCEPT !.left = @ \ {name}]>> \o Tail(stack)

Copying(name) == copy = "copying" /\ name \in Top.left /\ Len(Top.to) < MaxPath

(* Whether there has been an error: with a path that is not reliable there *)
(* may be one.                                                             *)
ErrorsAfter(path) == {errors} \cup (IF path \in Unreliable THEN {TRUE} ELSE {})

(* copy2: the contents, then the attributes.  Either may fail when the file *)
(* is there already.                                                       *)
CopyFile ==
    /\ copy = "copying"
    /\ \E name \in Top.left :
         /\ Copying(name) /\ Append(Top.from, name) \in files
         /\ files' = files \cup {Append(Top.to, name)}
         /\ errors' \in ErrorsAfter(Append(Top.from, name))
         /\ stack' = Without(name)
    /\ UNCHANGED <<root, folders, copy>>

(* The recursive call; its list is of what is there by now.                *)
CopyFolder ==
    /\ copy = "copying"
    /\ \E name \in Top.left :
         /\ Copying(name) /\ Append(Top.from, name) \in folders
         /\ folders' = folders \cup {Append(Top.to, name)}
         /\ stack' = <<[from |-> Append(Top.from, name), to |-> Append(Top.to, name),
                        left |-> Listed(Append(Top.from, name), files \cup folders)]>>
                     \o Without(name)
    /\ UNCHANGED <<root, files, errors, copy>>

(* "File name too long": copytree notes the error and goes on.             *)
NameTooLong ==
    /\ copy = "copying" /\ Len(Top.to) = MaxPath
    /\ \E name \in Top.left : stack' = Without(name)
    /\ errors' = TRUE
    /\ UNCHANGED <<root, files, folders, copy>>

(* Any other OSError is noted in the same way: a link to nothing, a special *)
(* file, a file or a directory that may not be read, a full disk.          *)
EntryFails ==
    /\ copy = "copying"
    /\ \E name \in Top.left :
         /\ Copying(name) /\ Append(Top.from, name) \in Unreliable
         /\ stack' = Without(name)
    /\ errors' = TRUE
    /\ UNCHANGED <<root, files, folders, copy>>

(* The attributes of the directory come last, and the outermost call raises *)
(* shutil.Error if there was an error.                                     *)
EndFolder ==
    /\ copy = "copying" /\ Top.left = {}
    /\ errors' \in ErrorsAfter(Top.from)
    /\ stack' = Tail(stack)
    /\ copy' = IF Tail(stack) # <<>> THEN "copying"
               ELSE IF errors' THEN "failed" ELSE "copied"
    /\ UNCHANGED <<root, files, folders>>

CopyInit ==
    /\ root \in Root
    /\ files = File /\ folders = Folder
    /\ stack = <<>> /\ errors = FALSE
    /\ copy = "none"

CopyStep == CopyFile \/ CopyFolder \/ NameTooLong \/ EntryFails \/ EndFolder

CopyNext == CreateCopy \/ CannotBegin \/ CopyStep

CopySpec == CopyInit /\ [][CopyNext]_copyVars

-----------------------------------------------------------------------------
(* Properties.                                                             *)

(* The path from a directory to something below it.                        *)
Below(path, there) ==
    {SubSeq(p, Len(path) + 1, Len(p)) : p \in {q \in there : IsStrictPrefix(path, q)}}

Kept(paths) == {p \in paths : \A i \in DOMAIN p : p[i] \notin Ignored}

(* The sandbox root is the repository or in it, not below an ignored name. *)
RootInside ==
    /\ IsPrefix(Source, root)
    /\ \A i \in DOMAIN root : i > Len(Source) => root[i] \notin Ignored

(* If it is the repository itself, the copy is one of the entries that are *)
(* copied, as far as it has come then.                                     *)
ButItself(paths) == {p \in paths : ~(root = Source /\ Head(p) = CopyName)}

Repository == Kept(Below(Source, File \cup Folder \cup Parents))

(* What may keep the copy from being made: the sandbox root, or something  *)
(* that is to be copied, which makes too long a path or is not reliable.   *)
Excuse ==
    \/ RootInside
    \/ {Source, root} \cap Unreliable # {}
    \/ \E p \in Repository :
         Len(Destination) + Len(p) > MaxPath \/ Source \o p \in Unreliable

(***************************************************************************)
(* The agent works on a copy that has every file and directory of the      *)
(* repository except for those under an ignored name, at whatever depth:   *)
(* copytree raises if it has left out anything else.  The repository       *)
(* itself is as it was, but for the sandbox root.  What lies under an      *)
(* ignored name cannot prevent the copy, and a root in a directory of the  *)
(* repository always does.                                                 *)
(***************************************************************************)
CopyFaithful ==
    /\ copy = "copied" =>
         /\ ButItself(Below(Destination, files)) = Kept(Below(Source, File))
         /\ ButItself(Below(Destination, folders)) = Kept(Below(Source, Folder \cup Parents))
         /\ RootInside => root = Source
    /\ copy = "failed" => Excuse
    /\ File \subseteq files /\ \A p \in files \ File : IsStrictPrefix(Destination, p)
    /\ Folder \subseteq folders
    /\ \A p \in folders \ Folder : IsPrefix(Destination, p) \/ p \in Parents

-----------------------------------------------------------------------------
(* What a document says and the code does not do.                          *)

(* USECASES.md: "patchwork run --repo ." works on a "sandboxed copy".  The *)
(* default sandbox root is a directory of the current one.                 *)
CheckoutIsCopied == copy # "failed"

=============================================================================
