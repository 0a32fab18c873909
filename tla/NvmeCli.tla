------------------------------ MODULE NvmeCli ------------------------------
(* The nvme command-line tool (tools/nvme-cli): argconfig_parse() stores the *)
(* options, one at a time, into the bytes of the sub-command's config        *)
(* struct; the sub-command then opens the device, checks the config, packs   *)
(* it into a command and hands that to the driver with an ioctl.             *)
(*                                                                           *)
(* The config is modelled byte by byte, because argconfig_parse() stores by  *)
(* the option's type and not by the field's width.  Numbers are 32-bit       *)
(* two's complement (-1 is 0xffffffff); a command dword that is packed from  *)
(* several fields is the set of its one bits.                                *)
EXTENDS Integers, Sequences, FiniteSets, TLC

CONSTANTS Bytes,       \* the numbers given for one- and two-byte fields
          Words,       \* the numbers given for wider ones
          MaxOptions,  \* options on one command line
          Images,      \* sizes of firmware files, in bytes
          OwnNs,       \* what NVME_IOCTL_ID answers for a block device
          MaxChunks,   \* download commands of one run that are followed
          MaxNodes     \* device nodes the list sub-command meets

VARIABLES command,  \* the sub-command, "none" before main() found it
          step,    \* "parse", "opened", "loop", "sent", "exit"
          cfg,      \* struct config, a function from offsets to bytes
          given,    \* the options stored so far, <<field, value>>
          node,     \* kind of the opened device node
          sent,     \* the commands handed to the driver
          fw,       \* fw_download: size left, offset, xfer
          code      \* exit status

cliVars == <<command, step, cfg, given, node, sent, fw, code>>

---------------------------------------------------------------------------
(* Bytes and bits.                                                         *)

Byte(v, i) == IF i < 4 THEN (v \div 256^i) % 256 ELSE IF v < 0 THEN 255 ELSE 0

(* The value of the n bytes at offset a; the upper half of an 8-byte field *)
(* stays zero, since no number here needs it.                              *)
Load(mem, a, n) ==
  CASE n = 1 -> mem[a]
    [] n = 2 -> mem[a] + 256 * mem[a + 1]
    [] OTHER -> mem[a] + 256 * mem[a + 1] + 65536 * mem[a + 2]
                + 16777216 * (IF mem[a + 3] > 127 THEN mem[a + 3] - 256
                                                  ELSE mem[a + 3])

(* A store of n bytes at offset a.  Bytes behind the struct are other       *)
(* variables of the caller and are not followed.                            *)
Store(mem, a, v, n) ==
  [b \in DOMAIN mem |-> IF b \in a .. a + n - 1 THEN Byte(v, b - a) ELSE mem[b]]

Bits(v) == {i \in 0 .. 30 : (v \div 2^i) % 2 = 1}
Shl(v, k) == {i + k : i \in Bits(v)} \cap (0 .. 31)

---------------------------------------------------------------------------
(* The config structs, in the order of their fields, with the type of the   *)
(* option that sets the field.                                              *)

num(f, size, dflt) == [name |-> f, size |-> size, type |-> "positive", dflt |-> dflt]
long(f, size) == [name |-> f, size |-> size, type |-> "long", dflt |-> 0]
flag(f) == [name |-> f, size |-> 1, type |-> "flag", dflt |-> 0]
file(f) == [name |-> f, size |-> 8, type |-> "string", dflt |-> 0]

IoConfig == <<long("start_block", 8), long("block_count", 2), long("data_size", 4),
  num("metadata_size", 4, 0), num("ref_tag", 4, 0), file("data"),
  num("prinfo", 1, 0), num("app_tag_mask", 1, 0), num("app_tag", 4, 0),
  flag("limited_retry"), flag("force_unit_access"), flag("show"),
  flag("dry_run"), flag("latency")>>

PassthruConfig == <<num("opcode", 1, 0), num("flags", 1, 0), num("rsvd", 2, 0),
  num("namespace_id", 4, 0), num("data_len", 4, 0), num("metadata_len", 4, 0),
  num("timeout", 4, 0), num("cdw2", 4, 0), num("cdw3", 4, 0), num("cdw10", 4, 0),
  num("cdw11", 4, 0), num("cdw12", 4, 0), num("cdw13", 4, 0), num("cdw14", 4, 0),
  num("cdw15", 4, 0), file("input_file"), flag("raw_binary"),
  flag("show_command"), flag("dry_run"), flag("read"), flag("write")>>

ConfigOf ==
  [c \in {"read", "write", "compare"} |-> IoConfig] @@
  [c \in {"io-passthru", "admin-passthru"} |-> PassthruConfig] @@
  ("smart-log" :> <<num("namespace_id", 4, -1), flag("raw_binary")>>) @@
  ("error-log" :> <<num("namespace_id", 4, -1), num("log_entries", 4, 64),
                    flag("raw_binary")>>) @@
  ("fw-log" :> <<flag("raw_binary")>>) @@
  ("get-log" :> <<num("namespace_id", 4, 0), num("log_id", 4, 0),
                  num("log_len", 4, 0), flag("raw_binary")>>) @@
  ("list-ns" :> <<num("namespace_id", 4, 0)>>) @@
  ("list" :> <<>>) @@ ("get-ns-id" :> <<>>) @@ ("show-regs" :> <<>>) @@
  ("id-ctrl" :> <<flag("vendor_specific"), flag("raw_binary")>>) @@
  ("id-ns" :> <<num("namespace_id", 4, 0), flag("vendor_specific"),
                flag("raw_binary")>>) @@
  ("get-feature" :> <<num("namespace_id", 4, 0), num("feature_id", 4, 0),
                      num("sel", 1, 0), num("cdw11", 4, 0), num("data_len", 4, 0),
                      flag("raw_binary")>>) @@
  ("set-feature" :> <<file("file"), num("namespace_id", 4, 0),
                      num("feature_id", 4, 0), num("value", 4, 0),
                      num("data_len", 4, 0)>>) @@
  ("fw-download" :> <<file("fw"), num("xfer", 4, 0), num("offset", 4, 0)>>) @@
  ("fw-activate" :> <<num("slot", 1, 0), num("action", 1, 0)>>) @@
  ("format" :> <<num("namespace_id", 4, -1), num("lbaf", 1, 0), num("ses", 1, 0),
                 num("pi", 1, 0), num("pil", 1, 0), num("ms", 1, 0)>>) @@
  ("security-send" :> <<file("file"), num("secp", 1, 0), num("spsp", 2, 0),
                        num("tl", 4, 0)>>) @@
  ("security-recv" :> <<num("size", 4, 0), num("secp", 1, 0), num("spsp", 2, 0),
                        num("al", 4, 0), flag("raw_binary")>>) @@
  ("flush" :> <<num("namespace_id", 4, -1)>>) @@
  ("resv-acquire" :> <<num("namespace_id", 4, 0), long("crkey", 8),
                       long("prkey", 8), num("rtype", 1, 0), num("racqa", 1, 0),
                       flag("iekey")>>) @@
  ("resv-register" :> <<num("namespace_id", 4, 0), long("crkey", 8),
                        long("nrkey", 8), num("rrega", 1, 0), num("cptpl", 1, 0),
                        flag("iekey")>>) @@
  ("resv-release" :> <<num("namespace_id", 4, 0), long("crkey", 8),
                       num("rtype", 1, 0), num("rrela", 1, 0), num("iekey", 1, 0)>>) @@
  ("resv-report" :> <<num("namespace_id", 4, 0), num("numd", 4, 0),
                      flag("raw_binary")>>)

(* The offsets the compiler gives the fields: each aligned to its size.     *)
Layout ==
  [c \in DOMAIN ConfigOf |->
    LET fs == ConfigOf[c]
        off[i \in 1 .. Len(fs)] ==
          IF i = 1 THEN 0
          ELSE LET e == off[i - 1] + fs[i - 1].size
               IN  ((e + fs[i].size - 1) \div fs[i].size) * fs[i].size
    IN  off]

FieldIndex(c, f) == CHOOSE i \in DOMAIN ConfigOf[c] : ConfigOf[c][i].name = f
Size(c) == IF ConfigOf[c] = <<>> THEN 0
           ELSE LET n == Len(ConfigOf[c]) IN Layout[c][n] + ConfigOf[c][n].size

(* The config as the sub-command reads it, field by field.                  *)
Read(c, mem) ==
  [f \in {ConfigOf[c][i].name : i \in DOMAIN ConfigOf[c]} |->
     Load(mem, Layout[c][FieldIndex(c, f)], ConfigOf[c][FieldIndex(c, f)].size)]

---------------------------------------------------------------------------
(* argconfig_parse().                                                       *)

\* A slip in argconfig_parse(): the config starts out as zeroes.
Defaults_none(c) == [a \in 0 .. Size(c) - 1 |-> 0]

(* memcpy of the defaults.                                                  *)
Defaults(c) ==
  [a \in 0 .. Size(c) - 1 |->
     LET own == {i \in DOMAIN ConfigOf[c] :
                   a \in Layout[c][i] .. Layout[c][i] + ConfigOf[c][i].size - 1}
     IN  IF own = {} THEN 0
         ELSE LET i == CHOOSE i \in own : TRUE
              IN  Byte(ConfigOf[c][i].dflt, a - Layout[c][i])]

(* The bytes an option of this type stores: an int for a number and for a    *)
(* flag, a long, a pointer.                                                  *)
StoreSize(type) == IF type \in {"long", "string"} THEN 8 ELSE 4

ArgsOf(f) == IF f.type \in {"flag", "string"} THEN {1}
             ELSE IF f.size < 4 THEN Bytes ELSE Words

(* One option of the command line: a negative number is refused by           *)
(* CFG_POSITIVE (no number here is), anything else is stored.           *)
argconfig_parse ==
  /\ step = "parse" /\ Len(given) < MaxOptions
  /\ \E i \in DOMAIN ConfigOf[command] :
       LET f == ConfigOf[command][i]
       IN  \E v \in ArgsOf(f) :
             /\ cfg' = Store(cfg, Layout[command][i], v, StoreSize(f.type))
             /\ given' = Append(given, <<i, v>>)
  /\ UNCHANGED <<command, step, node, sent, fw, code>>

(* An option the table does not have, or a number that is none: the help is  *)
(* printed and the program ends.                                             *)
argconfig_refuse ==
  /\ step = "parse" /\ given = <<>>
  /\ step' = "exit" /\ code' = 1
  /\ UNCHANGED <<command, cfg, given, node, sent, fw>>

---------------------------------------------------------------------------
(* What a sub-command makes of its config g on a node of kind n, when        *)
(* NVME_IOCTL_ID answers id and opening and reading a file goes well iff io: *)
(* a refusal with its status, or the command.                                *)

Refuse(e) == [ok |-> FALSE, err |-> e]
Ioctl(queue, op, nsid, dw10, dw11, len) ==
  [ok |-> TRUE, queue |-> queue, op |-> op, nsid |-> nsid, cdw10 |-> dw10,
   cdw11 |-> dw11, len |-> len]

identify(nsid, cns) == Ioctl("admin", "identify", nsid, Bits(cns), 0, 4096)

(* The dwords of a log page, less one, shifted as an unsigned number: a      *)
(* page of fewer than 4 bytes wraps round.                                   *)
nvme_get_log(id, len, nsid) ==
  LET n == (len \div 4) - 1
  IN  Ioctl("admin", "get-log", nsid,
             Bits(id) \cup (IF n < 0 THEN 16 .. 31 ELSE Shl(n, 16)), 0, len)

nvme_feature(op, fid, nsid, dw11, len) == Ioctl("admin", op, nsid, fid, dw11, len)

get_smart_log(g) == nvme_get_log(2, 512, g.namespace_id)

get_error_log(g) ==
  IF g.log_entries = 0 THEN Refuse("EINVAL")
                       ELSE nvme_get_log(1, 64 * g.log_entries, g.namespace_id)

get_fw_log(g) == nvme_get_log(3, 512, -1)

get_log(g) == IF g.log_len = 0 THEN Refuse("EINVAL")
                               ELSE nvme_get_log(g.log_id, g.log_len, g.namespace_id)

list_ns(g) == identify(g.namespace_id, 2)
id_ctrl(g) == identify(0, 1)

(* The namespace a sub-command acts on when none is given: the block         *)
(* device's own.  The answer is stored unsigned, so that the test for <= 0   *)
(* lets the -1 of a failed ioctl through.                                    *)
InNamespace(g, n, id, Do(_)) ==
  IF g.namespace_id # 0 THEN Do(g.namespace_id)
  ELSE IF n # "blk" THEN Refuse("ENOTBLK")
  ELSE Do(id)

id_ns(g, n, id) == InNamespace(g, n, id, LAMBDA ns : identify(ns, 0))

(* Prints what the ioctl answers; here the answer is kept signed.            *)
get_ns_id(n, id) ==
  IF n # "blk" THEN Refuse("ENOTBLK")
  ELSE IF id <= 0 THEN Refuse("errno")
  ELSE Ioctl("none", "print-nsid", id, {}, 0, 0)

(* Registers are mapped through sysfs, where the node's resource may be      *)
(* missing, and shown only for a character device.                           *)
get_registers(n, io, char_only) == (char_only => n = "chr") /\ io

show_registers(n, io) ==
  IF get_registers(n, io, TRUE) THEN Ioctl("none", "print-regs", 0, {}, 0, 0)
                                ELSE Refuse("ENODEV")

FeatureLen(g) == IF g.feature_id = 3 THEN 4096 ELSE g.data_len

get_feature(g) ==
  IF g.sel > 7 \/ g.feature_id = 0 THEN Refuse("EINVAL")
  ELSE nvme_feature("get-features", Shl(g.sel, 8) \cup Bits(g.feature_id),
                    g.namespace_id, g.cdw11, FeatureLen(g))

set_feature(g, io) ==
  IF g.value = -1 \/ g.feature_id = 0 \/ (FeatureLen(g) > 0 /\ ~io)
  THEN Refuse("EINVAL")
  ELSE nvme_feature("set-features", Bits(g.feature_id), g.namespace_id,
                    g.value, FeatureLen(g))

fw_activate(g) ==
  IF g.slot > 7 \/ g.action > 3 THEN Refuse("EINVAL")
  ELSE Ioctl("admin", "activate-fw", 0, Shl(g.action, 3) \cup Bits(g.slot), 0, 0)

FormatDword(g) == Bits(g.lbaf) \cup Shl(g.ms, 4) \cup Shl(g.pi, 5)
                  \cup Shl(g.pil, 8) \cup Shl(g.ses, 9)

format(g, n, id) ==
  IF g.ses > 7 \/ g.lbaf > 15 \/ g.pi > 7 THEN Refuse("EINVAL")
  ELSE Ioctl("admin", "format-nvm", IF n = "blk" THEN id ELSE g.namespace_id,
              FormatDword(g), 0, 0)

SecurityDword(g) == Shl(g.secp, 24) \cup Shl(g.spsp, 8)

(* The buffer has the size of the file but is never filled from it.          *)
sec_send(g, io) ==
  IF g.file = 0 \/ ~io THEN Refuse("EINVAL")
  ELSE Ioctl("admin", "security-send", 0, SecurityDword(g), g.tl, 4096)

sec_recv(g) == Ioctl("admin", "security-recv", 0, SecurityDword(g), g.al, g.size)

flush(g) == Ioctl("io", "flush", g.namespace_id, {}, 0, 0)

resv_acquire(g, n, id) ==
  InNamespace(g, n, id, LAMBDA ns :
    IF g.racqa > 7 THEN Refuse("EINVAL")
    ELSE Ioctl("io", "resv-acquire", ns,
                Shl(g.rtype, 8) \cup Shl(g.iekey, 3) \cup Bits(g.racqa), 0, 16))

resv_register(g, n, id) ==
  InNamespace(g, n, id, LAMBDA ns :
    IF g.cptpl > 3 THEN Refuse("EINVAL")
    ELSE Ioctl("io", "resv-register", ns,
                Shl(g.cptpl, 30) \cup Shl(g.iekey, 3) \cup Bits(g.rrega), 0, 16))

resv_release(g, n, id) ==
  InNamespace(g, n, id, LAMBDA ns :
    IF g.iekey > 1 \/ g.rrela > 7 THEN Refuse("EINVAL")
    ELSE Ioctl("io", "resv-release", ns,
                Shl(g.rtype, 8) \cup Shl(g.iekey, 3) \cup Bits(g.rrela), 0, 8))

resv_report(g, n, id) ==
  InNamespace(g, n, id, LAMBDA ns :
    LET numd == IF g.numd = 0 \/ g.numd > 1024 THEN 1024 ELSE g.numd
    IN  Ioctl("io", "resv-report", ns, Bits(numd), 0, 4 * numd))

(* Reads, writes and compares.  A dry run needs --show-command as well.      *)
submit_io(g, op, io) ==
  IF g.prinfo > 15 \/ (g.data # 0 /\ ~io) \/ g.data_size = 0
     \/ (op # "read" /\ ~io)
  THEN Refuse("EINVAL")
  ELSE IF g.show # 0 /\ g.dry_run # 0 THEN Refuse("none")
  ELSE Ioctl("io", op, OwnNs, Shl(g.prinfo, 10), g.block_count, g.data_size)

(* Dwords 2 to 12 are all filled from --cdw13.                               *)
nvme_passthru(g, queue, io) ==
  IF \/ g.input_file # 0 /\ ~io
     \/ g.data_len # 0 /\ (g.read = 0 <=> g.write = 0)
     \/ g.data_len # 0 /\ g.write # 0 /\ ~io
  THEN Refuse("EINVAL")
  ELSE IF g.show_command # 0 /\ g.dry_run # 0 THEN Refuse("none")
  ELSE Ioctl(queue, <<"opcode", g.opcode>>, g.namespace_id, Bits(g.cdw13),
              g.cdw13, g.data_len)

(* handle_internal_command(): the sub-command by its name.                   *)
Handler(c, g, n, id, io) ==
  CASE c = "smart-log" -> get_smart_log(g)
    [] c = "error-log" -> get_error_log(g)
    [] c = "fw-log" -> get_fw_log(g)
    [] c = "get-log" -> get_log(g)
    [] c = "list-ns" -> list_ns(g)
    [] c = "id-ctrl" -> id_ctrl(g)
    [] c = "id-ns" -> id_ns(g, n, id)
    [] c = "get-ns-id" -> get_ns_id(n, id)
    [] c = "show-regs" -> show_registers(n, io)
    [] c = "get-feature" -> get_feature(g)
    [] c = "set-feature" -> set_feature(g, io)
    [] c = "fw-activate" -> fw_activate(g)
    [] c = "format" -> format(g, n, id)
    [] c = "security-send" -> sec_send(g, io)
    [] c = "security-recv" -> sec_recv(g)
    [] c = "flush" -> flush(g)
    [] c = "resv-acquire" -> resv_acquire(g, n, id)
    [] c = "resv-register" -> resv_register(g, n, id)
    [] c = "resv-release" -> resv_release(g, n, id)
    [] c = "resv-report" -> resv_report(g, n, id)
    [] c \in {"read", "write", "compare"} -> submit_io(g, c, io)
    [] c = "io-passthru" -> nvme_passthru(g, "io", io)
    [] c = "admin-passthru" -> nvme_passthru(g, "admin", io)

---------------------------------------------------------------------------
(* The course of a run.                                                     *)

NoFw == [left |-> 0, offset |-> 0, xfer |-> 0, size |-> 0, first |-> 0]

CliInit ==
  /\ command = "none" /\ step = "main" /\ cfg = << >> /\ given = << >>
  /\ node = "none" /\ sent = << >> /\ fw = NoFw /\ code = 0

(* main() looks the sub-command up; help and an unknown name only print.     *)
main ==
  /\ step = "main"
  /\ \/ \E c \in DOMAIN ConfigOf :
          /\ command' = c /\ step' = "parse" /\ cfg' = Defaults(c)
          /\ UNCHANGED code
     \/ \E e \in {0, 1} : step' = "exit" /\ code' = e /\ UNCHANGED <<command, cfg>>
  /\ UNCHANGED <<given, node, sent, fw>>

(* get_dev() and open_dev(): no device, or one that is neither a block nor a *)
(* character device, ends the program.                                       *)
get_dev ==
  /\ step = "parse" /\ command # "list"
  /\ \/ /\ node' \in {"chr", "blk"} /\ step' = "opened" /\ UNCHANGED code
     \/ /\ step' = "exit" /\ code' = 2 /\ UNCHANGED node
  /\ UNCHANGED <<command, cfg, given, sent, fw>>

(* The sub-commands of one command; NVME_IOCTL_ID may fail with -1.          *)
Run ==
  /\ step = "opened" /\ command # "fw-download"
  /\ \E id \in {OwnNs, -1}, io \in BOOLEAN :
       LET r == Handler(command, Read(command, cfg), node, id, io)
       IN  IF r.ok THEN /\ sent' = Append(sent, r) /\ step' = "sent"
                        /\ UNCHANGED code
           ELSE /\ step' = "exit" /\ code' = (IF r.err = "none" THEN 0 ELSE 22)
                /\ UNCHANGED sent
  /\ UNCHANGED <<command, cfg, given, node, fw>>

(* The exit status by the driver's answer: a failed ioctl (-1), a status of  *)
(* the device (1) or success.  Reads, writes and compares end with 0 in any  *)
(* case; flush and the reservations pass on only a failed ioctl.             *)
Status(c, r) ==
  CASE c \in {"read", "write", "compare"} -> 0
    [] c \in {"flush", "resv-acquire", "resv-register", "resv-release",
              "resv-report"} -> IF r < 0 THEN 5 ELSE 0
    [] OTHER -> r

Reply ==
  /\ step = "sent"
  /\ \E r \in {-1, 0, 1} : code' = Status(command, r)
  /\ step' = "exit"
  /\ UNCHANGED <<command, cfg, given, node, sent, fw>>

(* fw_download(): the checks before the loop.  The offset option is in       *)
(* dwords; a transfer size that is no multiple of a page becomes a page.     *)
fw_download_check ==
  /\ step = "opened" /\ command = "fw-download"
  /\ LET g == Read(command, cfg)
         refuse == step' = "exit" /\ code' = 22 /\ UNCHANGED fw
     IN  \/ refuse
         \/ g.fw # 0 /\ \E size \in Images :
              IF size % 4 # 0 THEN refuse
              ELSE /\ fw' = [left |-> size, offset |-> 4 * g.offset, size |-> size,
                             first |-> 4 * g.offset,
                             xfer |-> IF g.xfer % 4096 # 0 THEN 4096 ELSE g.xfer]
                   /\ step' = "loop" /\ UNCHANGED code
  /\ UNCHANGED <<command, cfg, given, node, sent>>

(* One turn of its loop, with the driver's answer.                           *)
fw_download_loop ==
  /\ step = "loop" /\ command = "fw-download" /\ fw.left > 0
  /\ Len(sent) < MaxChunks
  /\ LET xfer == IF fw.xfer > fw.left THEN fw.left ELSE fw.xfer
     IN  /\ sent' = Append(sent, Ioctl("admin", "download-fw", 0,
                      IF xfer = 0 THEN 0 .. 31 ELSE Bits((xfer \div 4) - 1),
                      fw.offset \div 4, xfer))
         /\ \E r \in {-1, 0, 1} :
              IF r = 0
              THEN /\ fw' = [fw EXCEPT !.xfer = xfer, !.left = @ - xfer,
                                       !.offset = @ + xfer]
                   /\ UNCHANGED <<step, code>>
              ELSE /\ step' = "exit" /\ code' = r
                   /\ fw' = [fw EXCEPT !.xfer = xfer]
  /\ UNCHANGED <<command, cfg, given, node>>

fw_download_end ==
  /\ step = "loop" /\ command = "fw-download" /\ fw.left = 0
  /\ step' = "exit" /\ code' = 0
  /\ UNCHANGED <<command, cfg, given, node, sent, fw>>

(* list(): for every device node of nvme, the controller and then the        *)
(* namespace are identified; a status of the device ends the command, a      *)
(* failed ioctl does not.  An old controller's version is in its registers.  *)
list ==
  /\ command = "list" /\ step \in {"parse", "loop"}
  /\ \/ /\ Len(sent) < 2 * MaxNodes
        /\ \E id \in {OwnNs, -1}, r1, r2 \in {-1, 0, 1}, regs \in BOOLEAN :
             /\ sent' = sent \o (IF r1 > 0 THEN <<identify(0, 1)>>
                                 ELSE <<identify(0, 1), identify(id, 0)>>)
             /\ IF r1 > 0 \/ r2 > 0 \/ ~get_registers("blk", regs, FALSE) THEN step' = "exit" /\ code' = 1
                                    ELSE step' = "loop" /\ UNCHANGED code
     \/ /\ step' = "exit" /\ code' = 0 /\ UNCHANGED sent
  /\ UNCHANGED <<command, cfg, given, node, fw>>

CliNext ==
  \/ main \/ argconfig_parse \/ argconfig_refuse \/ get_dev \/ Run \/ Reply
  \/ fw_download_check \/ fw_download_loop \/ fw_download_end \/ list

---------------------------------------------------------------------------
(* Properties.                                                              *)

(* The value of a field by the command line: the last option that names it,  *)
(* or the default.                                                           *)
Asked(i) ==
  LET at == {k \in DOMAIN given : given[k][1] = i}
  IN  IF at = {} THEN ConfigOf[command][i].dflt
      ELSE given[CHOOSE k \in at : \A m \in at : m <= k][2]

(* The k-th option stores beyond its own field and into field i: over an     *)
(* option given before it, or with the upper bytes of a number that does not *)
(* fit its field.                                                            *)
SpillsInto(k, i) ==
  LET j == given[k][1]
      f == ConfigOf[command][j]
  IN  /\ j < i /\ Layout[command][i] < Layout[command][j] + StoreSize(f.type)
      /\ \A m \in k + 1 .. Len(given) : given[m][1] # i
      /\ \/ \E m \in 1 .. k - 1 : given[m][1] = i
         \/ f.size < 4 /\ given[k][2] >= 256^f.size

(* argconfig_parse() stores four or eight bytes whatever the width of the    *)
(* field.  The sub-command still reads every field as the last option for it *)
(* said (cut to its width) or at its default, but for the fields that a      *)
(* later option for a field just before them spills into: fw-activate loses  *)
(* an action given before the slot.                                          *)
OptionsParsed ==
  step = "parse" =>
    \A i \in DOMAIN ConfigOf[command] :
      \/ \E k \in DOMAIN given : SpillsInto(k, i)
      \/ LET f == ConfigOf[command][i]
         IN  Read(command, cfg)[f.name] =
               IF f.size < 4 THEN Asked(i) % 256^f.size ELSE Asked(i)

(* The pieces that fw_download() sends lie one behind the other from the     *)
(* given offset, and a download that ends with success has sent the whole    *)
(* image.                                                                    *)
ImageTiled ==
  command = "fw-download" =>
    /\ \A k \in DOMAIN sent :
         4 * sent[k].cdw11 = IF k = 1 THEN fw.first
                             ELSE 4 * sent[k - 1].cdw11 + sent[k - 1].len
    /\ step = "exit" /\ code = 0 /\ fw.size > 0 =>
         4 * sent[Len(sent)].cdw11 + sent[Len(sent)].len = fw.first + fw.size

(* The options reach the sub-command and the image reaches the device.  What *)
(* passthru makes of its options is not part of it: nvme_passthru() fills    *)
(* every dword up to the 13th from --cdw13.                                  *)
OptionsAndImage == OptionsParsed /\ ImageTiled
===========================================================================
