------------------------------- MODULE Client -------------------------------
(***************************************************************************)
(* The commands that make and use key files and sealed files: keygen, seal *)
(* and open of cli/oversight.py, cli/oversight_rich.py and cli/gui.py, and *)
(* keys import of the rich one, with oversight_core/safe_io.py, run side   *)
(* by side in one directory.                                               *)
(*                                                                         *)
(* A command is a list of steps, each of which looks at the directory or   *)
(* changes it once; everything it computes in between is its own.  Output  *)
(* paths are checked first and replaced later (os.replace), inputs are     *)
(* read in between.  A command can be killed before any step: a file       *)
(* written by atomic_write_bytes is then the old one or the new one, a     *)
(* file written by write_text (config.json, imported keys) can be empty.   *)
(*                                                                         *)
(* `made', `opened', `written' and `registered' are history: what seal()   *)
(* produced, what open wrote out, whose container reached the directory    *)
(* and what the registry accepted.  The field `free' of a command is too:  *)
(* the outputs that held no private key when it looked at them.            *)
(***************************************************************************)
EXTENDS Container

CONSTANTS
  Front,        \* the front ends that are used: a subset of {"cli", "rich", "gui"}
  Paths,        \* names in the directory
  OutPaths,     \* the ones a user gives for --out
  PubOf,        \* the .pub.json path that keygen derives from its --out
  SideOf,       \* the .fingerprint.json path that seal derives from its --out
  Doc,          \* the path of the document to seal
  Recipients,   \* paths in .oversight/recipients/
  Received,     \* containers made before, here or elsewhere (ids below 10)
  Now,          \* the time
  MaxCommands,  \* bound on the number of commands
  MaxKills      \* bound on the number of commands killed

VARIABLES
  fs,          \* what each path holds
  run,         \* the command each front end is in
  config,      \* .oversight/config.json: active identity, other settings
  nextId,      \* the next identity, file id, mark, key and nonce to be drawn
  made, opened, written, registered,
  commands, kills

\* A container as a sealer makes it, of any suite: its issuer signed the
\* manifest, the manifest has the hash of the text, and the key of the text is
\* wrapped for the recipient.
Genuine(b) ==
  LET m == b.manifest  c == b.ciphertext IN
  /\ DOMAIN m = ManifestFields
  /\ b = [whole |-> TRUE, suite |-> b.suite, manifest |-> Sign(m, m.issuer),
          wrapped |-> b.wrapped, nonce |-> c.nonce,
          ciphertext |-> AeadEncrypt(c.key, c.nonce, c.data, m.content_hash)]
  /\ m.content_hash = ContentHash(c.data)
  /\ b.wrapped \in {WrapDekForRecipient(c.key, c.nonce, m.recipient),
                    WrapDekForRecipientP256(c.key, c.nonce, m.recipient),
                    HybridWrapDek(c.key, c.nonce, m.recipient)}

\* Keys are drawn at random and marks too: no two containers share one.
Distinct(blobs) ==
  \A a, b \in blobs :
    \/ a.ciphertext.key = b.ciphertext.key
    \/ a.ciphertext.data.mark = b.ciphertext.data.mark /\ b.ciphertext.data.mark # 0
    => a = b

ASSUME ReceivedAssumption ==
  /\ \A b \in Received : Genuine(b) /\ b.ciphertext.key \in 0..9 /\ b.ciphertext.data.mark \in 0..9
  /\ Distinct(Received)

\* The names of the directory.  The document is no command's output.  A
\* derived name can be any other one, of a private key too: with_suffix only
\* makes sure that it is not the name it is derived from.
ASSUME PathsAssumption ==
  /\ OutPaths \subseteq Paths /\ Recipients \subseteq Paths
  /\ PubOf \in [OutPaths -> Paths] /\ SideOf \in [OutPaths -> Paths]
  /\ \A p \in OutPaths : p \notin {PubOf[p], SideOf[p]} /\ Doc \notin {p, PubOf[p], SideOf[p]}
  /\ Doc \in Paths \ (Recipients \cup {"issuer.json", "alice.json", "issuer.pub.json",
                                       "alice.pub.json", "a.sealed"})

history == <<made, opened, written, registered>>
bounds  == <<commands, kills>>
vars    == <<fs, run, config, nextId, history, bounds>>

NoFile == [kind |-> "none"]
Torn   == [kind |-> "torn"]
Key(id) == [kind |-> "private", id |-> id]
Pub(id) == [kind |-> "public", id |-> id]
Text(t) == [kind |-> "text", text |-> t]
Sealed(blob) == [kind |-> "sealed", blob |-> blob]

\* is_private_key_file
IsPrivate(f) == f.kind = "private"

Idle == [todo |-> << >>]

\* The issuer's identity, a recipient's, and perhaps a container received.
Init ==
  /\ \E received \in {NoFile} \cup {Sealed(b) : b \in Received} :
       fs = [p \in Paths |->
               CASE p = "issuer.json" -> Key(1)
                 [] p = "alice.json" -> Key(2)
                 [] p = "issuer.pub.json" -> Pub(1)
                 [] p = "alice.pub.json" -> Pub(2)
                 [] p = Doc -> Text([doc |-> "d", mark |-> 0])
                 [] p = "a.sealed" -> received
                 [] OTHER -> NoFile]
  /\ run = [u \in Front |-> Idle]
  /\ config = [identity |-> NoValue, settings |-> TRUE]
  /\ nextId = 10
  /\ made = Received /\ opened = {} /\ written = {b.manifest.file_id : b \in Received}
  /\ registered = {}
  /\ commands = 0 /\ kills = 0
-----------------------------------------------------------------------------
(***************************************************************************)
(* The commands.  `over' is whether a file that is there may be replaced:  *)
(* --force of keys generate, or the user's answer to the GUI's dialog.     *)
(***************************************************************************)
Start(u, command) ==
  /\ run[u] = Idle /\ commands < MaxCommands
  /\ commands' = commands + 1
  /\ run' = [run EXCEPT ![u] = command]
  /\ UNCHANGED <<fs, config, nextId, history, kills>>

\* keys generate updates the configuration when the path is its own choice.
CmdKeygen(u) ==
  \E out \in OutPaths, over \in BOOLEAN, own \in BOOLEAN :
    /\ over => u = "rich"
    /\ own => u = "rich"
    /\ Start(u, [todo |-> (IF own THEN <<"load">> ELSE << >>)
                          \o <<"checkOut", "checkPub", "writeKey", "writePub">>
                          \o (IF own THEN <<"emptyConfig", "writeConfig">> ELSE << >>),
                 out |-> out, inputs |-> {}, over |-> over, free |-> {},
                 id |-> 0, settings |-> FALSE])

\* Mutant: the registration is sent before the container is written.
SealStepsEarly(u, marked) ==
  <<"checkOut", "readDoc", "readKeys", "makeBlob">>
  \o (IF u = "gui" THEN << >> ELSE <<"register">>) \o <<"writeSealed", "writeSide">>

\* The rich command reads its keys and its input before it checks the output;
\* only the command lines register; the GUI keeps a fingerprint of marked
\* copies only.
SealSteps(u, marked) ==
  (IF u = "rich" THEN <<"readKeys", "readDoc", "checkOut">>
                 ELSE <<"checkOut", "readDoc", "readKeys">>)
  \o <<"makeBlob", "writeSealed">>
  \o (IF u = "gui" /\ ~marked THEN << >> ELSE <<"writeSide">>)
  \o (IF u = "gui" THEN << >> ELSE <<"register">>)

\* The rich command falls back on the identity of its configuration.
KeyPaths(u, given) ==
  {given} \cup IF u = "rich" /\ config # Torn THEN {config.identity} \ {NoValue} ELSE {}

CmdSeal(u) ==
  \E out \in OutPaths, to \in Recipients, key \in KeyPaths(u, "issuer.json"),
     marked \in BOOLEAN :
       Start(u, [todo |-> SealSteps(u, marked), out |-> out, to |-> to,
                 key |-> key, inputs |-> {Doc, to, key},
                 over |-> FALSE, free |-> {}, marked |-> marked,
                 issuer |-> 0, recipient |-> 0, text |-> NoValue, blob |-> NoValue])

CmdOpen(u) ==
  \E in, out \in OutPaths, key \in KeyPaths(u, "alice.json") :
       Start(u, [todo |-> IF u = "cli" THEN <<"checkOut", "readSealed", "readIdentity", "writeText">>
                          ELSE <<"checkOut", "readIdentity", "readSealed", "writeText">>,
                 in |-> in, out |-> out, key |-> key, inputs |-> {in, key},
                 over |-> FALSE, free |-> {}, id |-> 0, blob |-> NoValue])

CmdKeysImport(u) ==
  /\ u = "rich"
  /\ \E from \in Paths, to \in Recipients, force \in BOOLEAN :
       /\ fs[from].kind \in {"private", "public"}
       /\ fs[to].kind # "none" => force
       /\ Start(u, [todo |-> <<"emptyImport", "writeImport">>, out |-> to, over |-> force,
                    free |-> IF fs[to].kind = "none" THEN {to} ELSE {}, data |-> fs[from]])
-----------------------------------------------------------------------------
(***************************************************************************)
(* safe_io.validate_output_path and _prepare_output of the GUI.            *)
(***************************************************************************)
At(u, step) == run[u].todo # << >> /\ Head(run[u].todo) = step

\* The command is over, by an error or by its last step.
Exit(u) == run' = [run EXCEPT ![u] = Idle]

\* The next step, with the fields of `got' set by this one.
Go(u, got) ==
  run' = [run EXCEPT ![u] =
            IF Len(@.todo) = 1 THEN Idle
            ELSE [f \in DOMAIN @ |-> IF f = "todo" THEN Tail(@.todo)
                                     ELSE IF f \in DOMAIN got THEN got[f] ELSE @[f]]]

Nothing == [f \in {} |-> NoValue]

Target(u) == IF At(u, "checkPub") THEN PubOf[run[u].out] ELSE run[u].out

\* Mutant: a private key that may be overwritten is overwritten.
OutputAllowedOver(u, allowExisting) ==
  /\ Target(u) \notin run[u].inputs
  /\ fs[Target(u)] # NoFile => allowExisting

OutputAllowed(u, allowExisting) ==
  /\ Target(u) \notin run[u].inputs
  /\ ~IsPrivate(fs[Target(u)])
  /\ fs[Target(u)] # NoFile => allowExisting

CheckOutput(u) ==
  /\ At(u, "checkOut") \/ At(u, "checkPub")
  /\ IF OutputAllowed(u, run[u].over)
     THEN Go(u, [over |-> u = "rich" /\ run[u].over,
                 free |-> run[u].free \cup (IF IsPrivate(fs[Target(u)]) THEN {} ELSE {Target(u)})])
     ELSE Exit(u)
  /\ UNCHANGED <<fs, config, nextId, history, bounds>>

\* The GUI asks about a file that is there and is not a key; when the user
\* agrees the path is checked again.
Ask(u) ==
  /\ u = "gui" /\ (At(u, "checkOut") \/ At(u, "checkPub"))
  /\ ~run[u].over /\ fs[Target(u)] # NoFile /\ OutputAllowed(u, TRUE)
  /\ run' = [run EXCEPT ![u].over = TRUE]
  /\ UNCHANGED <<fs, config, nextId, history, bounds>>
-----------------------------------------------------------------------------
(***************************************************************************)
(* Reading the inputs.                                                     *)
(***************************************************************************)
ReadDoc(u) ==
  /\ At(u, "readDoc")
  /\ Go(u, [text |-> fs[Doc].text])
  /\ UNCHANGED <<fs, config, nextId, history, bounds>>

ReadKeys(u) ==
  /\ At(u, "readKeys")
  /\ IF IsPrivate(fs[run[u].key]) /\ fs[run[u].to].kind \in {"private", "public"}
     THEN Go(u, [issuer |-> fs[run[u].key].id, recipient |-> fs[run[u].to].id])
     ELSE Exit(u)
  /\ UNCHANGED <<fs, config, nextId, history, bounds>>

\* What can have become of a container on its way: it holds parts of another
\* one, a field of its manifest or header has changed, or it is cut short.
Damaged(blob) ==
  UNION {{[blob EXCEPT !.manifest = other.manifest],
          [blob EXCEPT !.wrapped = other.wrapped],
          [blob EXCEPT !.ciphertext = other.ciphertext, !.nonce = other.nonce],
          [blob EXCEPT !.manifest.recipient = other.manifest.recipient],
          [blob EXCEPT !.manifest.file_id = other.manifest.file_id],
          [blob EXCEPT !.wrapped = [slots |-> <<other.wrapped, @>>]],
          [blob EXCEPT !.manifest = Malformed],
          [blob EXCEPT !.suite = "OSGT-HYBRID-v1"],
          [blob EXCEPT !.whole = FALSE]} : other \in made}

ReadSealed(u) ==
  /\ At(u, "readSealed")
  /\ IF fs[run[u].in].kind = "sealed"
     THEN \E blob \in {fs[run[u].in].blob} \cup Damaged(fs[run[u].in].blob) : Go(u, [blob |-> blob])
     ELSE Exit(u)
  /\ UNCHANGED <<fs, config, nextId, history, bounds>>

ReadIdentity(u) ==
  /\ At(u, "readIdentity")
  /\ IF IsPrivate(fs[run[u].key]) THEN Go(u, [id |-> fs[run[u].key].id])
     ELSE Exit(u)
  /\ UNCHANGED <<fs, config, nextId, history, bounds>>

\* load_config: a file that does not parse gives the defaults.
LoadConfig(u) ==
  /\ At(u, "load")
  /\ Go(u, [settings |-> config # Torn /\ config.settings])
  /\ UNCHANGED <<fs, config, nextId, history, bounds>>
-----------------------------------------------------------------------------
(***************************************************************************)
(* Writing: atomic_write_bytes replaces the file in one step.              *)
(***************************************************************************)
Replace(path, content) == fs' = [fs EXCEPT ![path] = content]

WriteKey(u) ==
  /\ At(u, "writeKey")
  /\ Replace(run[u].out, Key(nextId))
  /\ nextId' = nextId + 1
  /\ Go(u, [id |-> nextId])
  /\ UNCHANGED <<config, history, bounds>>

WritePub(u) ==
  /\ At(u, "writePub")
  /\ Replace(PubOf[run[u].out], Pub(run[u].id))
  /\ Go(u, Nothing)
  /\ UNCHANGED <<config, nextId, history, bounds>>

\* save_config is write_text: the file is empty for a moment.
EmptyConfig(u) ==
  /\ At(u, "emptyConfig")
  /\ config' = Torn /\ Go(u, Nothing)
  /\ UNCHANGED <<fs, nextId, history, bounds>>

WriteConfig(u) ==
  /\ At(u, "writeConfig")
  /\ config' = [identity |-> run[u].out, settings |-> run[u].settings]
  /\ Exit(u)
  /\ UNCHANGED <<fs, nextId, history, bounds>>

EmptyImport(u) ==
  /\ At(u, "emptyImport")
  /\ Replace(run[u].out, Torn) /\ Go(u, Nothing)
  /\ UNCHANGED <<config, nextId, history, bounds>>

WriteImport(u) ==
  /\ At(u, "writeImport")
  /\ Replace(run[u].out, run[u].data) /\ Exit(u)
  /\ UNCHANGED <<config, nextId, history, bounds>>

\* The marked text, the manifest and the container.  One draw of nextId stands
\* for the mark, the file id, the key and the nonces.
Copy(u) == [doc |-> run[u].text.doc, mark |-> IF run[u].marked THEN nextId ELSE run[u].text.mark]

BlobOf(u) ==
  SealBlob(Copy(u),
           [NewManifest(nextId, Copy(u), run[u].issuer, run[u].recipient, 0) EXCEPT
              !.canonical_content_hash = ContentHash(run[u].text),
              !.watermarks = IF run[u].marked THEN {nextId} ELSE {}],
           run[u].issuer, run[u].recipient, nextId, nextId)

MakeBlob(u) ==
  /\ At(u, "makeBlob")
  /\ made' = made \cup {BlobOf(u)} /\ nextId' = nextId + 1
  /\ Go(u, [blob |-> BlobOf(u)])
  /\ UNCHANGED <<fs, config, opened, written, registered, bounds>>

FileId(u) == run[u].blob.manifest.file_id

WriteSealed(u) ==
  /\ At(u, "writeSealed")
  /\ Replace(run[u].out, Sealed(run[u].blob))
  /\ written' = written \cup {FileId(u)}
  /\ Go(u, Nothing)
  /\ UNCHANGED <<config, nextId, made, opened, registered, bounds>>

\* The path of the fingerprint is not checked: an older one is replaced.
WriteSide(u) ==
  /\ At(u, "writeSide")
  /\ Replace(SideOf[run[u].out], [kind |-> "side", file |-> FileId(u)])
  /\ Go(u, Nothing)
  /\ UNCHANGED <<config, nextId, history, bounds>>

\* _do_register: not asked for, refused or unreachable, or accepted (and the
\* answer perhaps lost); no outcome is an error of the command.
Register(u) ==
  /\ At(u, "register")
  /\ registered' \in {registered, registered \cup {FileId(u)}}
  /\ Go(u, Nothing)
  /\ UNCHANGED <<fs, config, nextId, made, opened, written, bounds>>

WriteText(u) ==
  /\ At(u, "writeText")
  /\ LET text == OpenSealed(run[u].blob, run[u].id, Now) IN
       IF text = Failed THEN UNCHANGED <<fs, opened>>
       ELSE /\ Replace(run[u].out, Text(text))
            /\ opened' = opened \cup {[text |-> text, manifest |-> run[u].blob.manifest,
                                       by |-> run[u].id]}
  /\ Exit(u)
  /\ UNCHANGED <<config, nextId, made, written, registered, bounds>>
-----------------------------------------------------------------------------
(***************************************************************************)
(* The environment.                                                        *)
(***************************************************************************)
Killed(u) ==
  /\ run[u] # Idle /\ kills < MaxKills
  /\ kills' = kills + 1 /\ Exit(u)
  /\ UNCHANGED <<fs, config, nextId, history, commands>>

Next ==
  \E u \in Front :
       \/ CmdKeygen(u) \/ CmdSeal(u) \/ CmdOpen(u) \/ CmdKeysImport(u) \/ Ask(u)
       \/ CheckOutput(u) \/ ReadDoc(u) \/ ReadKeys(u) \/ ReadSealed(u) \/ ReadIdentity(u)
       \/ LoadConfig(u) \/ WriteKey(u) \/ WritePub(u) \/ EmptyConfig(u) \/ WriteConfig(u)
       \/ EmptyImport(u) \/ WriteImport(u) \/ MakeBlob(u) \/ WriteSealed(u) \/ WriteSide(u) \/ Register(u)
       \/ WriteText(u) \/ Killed(u)

Spec == Init /\ [][Next]_vars
-----------------------------------------------------------------------------
\* Whatever happens to the containers, a text that open wrote out is the one
\* whose issuer signed the manifest that came with it, and was sealed for the
\* identity that opened it; when the copy is marked, that manifest names the
\* opener as its recipient (signature, associated data and hash in
\* open_sealed).  Two unmarked copies of one document have the same hash, so
\* one's manifest can come with the other's ciphertext.
OpenedIsSealed ==
  \A o \in opened :
    /\ \E b \in made : b.manifest = o.manifest /\ b.ciphertext.data = o.text
    /\ \E b \in made : b.manifest.recipient = o.by /\ b.ciphertext.data = o.text
    /\ o.text.mark # 0 => o.manifest.recipient = o.by

\* No step replaces a private key file except these.  docs/security.md:57-59
\* says "Seal and open operations MUST NOT overwrite selected input paths or
\* files that parse as Oversight private keys"; the first two break it, and
\* both lose the key for good:
\* - the command found no key at that path when it looked (free), and another
\*   one put the key there before it wrote (validate_output_path and
\*   os.replace are two steps);
\* - seal writes its fingerprint, a path that it never checks;
\* - keys import --force replaces a recipient's file, which can hold a
\*   private key because import takes any file with an x25519_pub.
\* A path that held a key when it was checked is safe: neither --force of
\* keys generate nor the answer to the GUI's dialog replaces it.
KeysLostOnlyUnguarded ==
  [][\A p \in Paths : IsPrivate(fs[p]) /\ fs'[p] # fs[p] =>
       \E u \in Front :
         /\ run[u] # Idle /\ run'[u] # run[u]
         /\ \/ p \in run[u].free
            \/ At(u, "writeSide") /\ p = SideOf[run[u].out]
            \/ (At(u, "emptyImport") \/ At(u, "writeImport")) /\ p = run[u].out /\ run[u].over]_vars

\* Whoever is killed and whenever: a fingerprint in the directory and a
\* registration at the registry are of a copy whose container was written.
KnownCopiesWereWritten ==
  /\ registered \subseteq written
  /\ \A p \in Paths : fs[p].kind = "side" => fs[p].file \in written
=============================================================================
