-------------------------------- MODULE Transcript --------------------------------
(* A transcript as its words, and the lists the text passes know
   (crates/agentdictate-core/src/dictation.rs, dictation/symbols.rs).

   A word is its lowercase form, its case ("low", "cap", "up"), the gap before it and
   what claims it: a Words entry, or a path the model already wrote.  A word the model
   wrote with a dot in it ("leadlord.ai") is one word.  Only the file of common
   English words is cut to the words the texts are made of; hyphenated words, quotes and
   URLs are left out. *)
EXTENDS Integers, Sequences, SequencesExt, FiniteSets, TLC

Gaps == {" ", ", ", ". ", "-", "'", "\n"}      \* "" before the first word
Claims == {"free", "words", "path"}

Stopwords ==
  {"a", "also", "am", "an", "and", "are", "as", "at", "be", "because", "been", "but",
   "by", "can", "could", "did", "do", "does", "even", "for", "from", "had", "has",
   "have", "he", "here", "how", "i", "if", "in", "instead", "is", "it", "just",
   "maybe", "no", "not", "of", "on", "or", "she", "should", "since", "so", "that",
   "the", "then", "there", "these", "they", "this", "those", "to", "was", "we",
   "were", "what", "when", "where", "which", "who", "why", "will", "with", "would",
   "yes", "you"}
Determiners ==
  {"a", "all", "an", "any", "each", "every", "he", "her", "his", "i", "it", "its",
   "my", "no", "our", "she", "some", "that", "the", "their", "these", "they", "this",
   "those", "we", "you", "your"}
Modals ==
  {"also", "can", "could", "just", "may", "might", "must", "really", "shall",
   "should", "will", "would"}
PathLeaders ==
  {"at", "call", "cd", "delete", "did", "do", "does", "for", "from", "in", "inside",
   "into", "my", "of", "on", "open", "our", "run", "see", "seeing", "that", "the",
   "these", "this", "those", "to", "try", "type", "under", "use", "using", "with",
   "your"}
SymbolNamers ==
  {"a", "an", "another", "back", "double", "forward", "leading", "single", "trailing"}
SymbolNouns ==
  {"character", "characters", "command", "commands", "key", "keys", "sign", "symbol"}
DomainEndings == {"ai", "ca", "co", "com", "dev", "fr", "gg", "io", "org", "uk", "xyz"}
FileExtensions ==
  {"cfg", "cjs", "conf", "cpp", "cs", "css", "csv", "gif", "gz", "hpp", "html", "ini",
   "java", "jpeg", "jpg", "js", "json", "jsonc", "jsx", "kt", "md", "mdx", "mjs",
   "mp3", "mp4", "pdf", "php", "png", "py", "rb", "rs", "scss", "sh", "sql", "svg",
   "toml", "ts", "tsx", "txt", "wav", "webm", "webp", "yaml", "yml", "zsh"}
Dotfiles ==
  {"claude", "codex", "dockerignore", "editorconfig", "env", "eslintrc", "git",
   "gitattributes", "github", "gitignore", "npmrc", "nvmrc", "prettierrc", "ssh",
   "vscode"}
EraNouns ==                             \* DOT_COM_NOUNS
  {"boom", "bubble", "companies", "company", "crash", "days", "era", "startup",
   "startups"}
AddressNames ==
  {"admin", "contact", "hello", "hi", "info", "noreply", "postmaster", "webmaster"}
EmailCues ==
  {"account", "accounts", "address", "cc", "contact", "e-mail", "email", "emailed",
   "emails", "forward", "inbox", "mail", "mailbox", "message", "send", "sent",
   "write"}
AddressNouns == {"account", "address", "e-mail", "email", "inbox"}
NotMailboxes ==
  {"available", "check", "checked", "deployed", "found", "go", "goes", "her", "him",
   "home", "hosted", "launched", "live", "lives", "located", "log", "logged", "look",
   "looked", "looking", "looks", "me", "now", "online", "open", "opened", "out",
   "page", "point", "pointed", "pointing", "points", "published", "redirect",
   "redirected", "redirects", "running", "served", "sign", "signed", "site", "stuck",
   "them", "up", "us", "visit", "website", "went", "work", "worked", "working",
   "works"}
RunArticles == {"my", "our", "that", "the", "their", "this", "your"}
Commands ==
  {"bun", "cargo", "cat", "cd", "chmod", "cp", "curl", "docker", "git", "grep",
   "kill", "ls", "mkdir", "mv", "node", "npm", "pnpm", "ps", "python", "rm", "ssh",
   "tar"}
CommonWords ==                          \* as far as the texts use them
  {"account", "code", "command", "dash", "dot", "hello", "home", "install", "key", "plan",
   "point", "slash", "snake", "twelve", "twenty", "two", "underscore", "verify",
   "version"} \cup ((Stopwords \cup Modals \cup Determiners) \ {"i"})
NumberLabels ==
  {"step", "phase", "question", "option", "decision", "issue", "item", "lane", "wave",
   "tier", "level", "part", "section", "version", "round", "ticket", "task",
   "chapter", "page", "slide", "lecture", "module", "week", "stage", "milestone",
   "sprint", "plan", "case", "test", "pr"}
Letters == {"a", "b", "c", "d", "e", "f", "g", "h", "i", "j", "k", "l", "m", "n", "o",
            "p", "q", "r", "s", "t", "u", "v", "w", "x", "y", "z"}
Digits == {"5"}
NotInNames == {"dot", "dash", "underscore", "slash"}

(* Words of more than one label: all labels but the last, and the last. *)
DottedWords == {"leadlord.ai", "home.md"}
Labels(w) ==
  CASE w = "leadlord.ai" -> <<"leadlord", "ai">>
    [] w = "home.md" -> <<"home", "md">>
    [] OTHER -> <<w>>

Small == <<"zero", "one", "two", "three", "four", "five", "six", "seven", "eight", "nine",
           "ten", "eleven", "twelve", "thirteen", "fourteen", "fifteen", "sixteen",
           "seventeen", "eighteen", "nineteen">>
Tens == <<"twenty", "thirty", "forty", "fifty", "sixty", "seventy", "eighty", "ninety">>

--------------------------------------------------------------------------------
(* `Words`: word i of text t, or "" where there is none *)

Word(t, i) == IF i \in DOMAIN t THEN t[i].word ELSE ""

(* A word follows word i after spaces on the same line. *)
Spaced(t, i) == {i, i + 1} \subseteq DOMAIN t /\ t[i + 1].gap = " "

Links(t, i, link) == Spaced(t, i) /\ Word(t, i + 1) = link /\ Spaced(t, i + 1)

Follows(t, i, list) == Spaced(t, i - 1) /\ Word(t, i - 1) \in list

InContraction(t, i) == \E k \in {i, i + 1} \cap DOMAIN t : t[k].gap = "'"

(* The ends of the chains "word link word link ..." from word i, each word one of parts. *)
Chain(t, i, link, parts) ==
  {k \in i..Len(t) :
     /\ (k - i) % 2 = 0
     /\ \A j \in i..(k - 1) : (j - i) % 2 = 0 => (Links(t, j, link) /\ j + 2 \in parts)}

(* Every other word of first..last, as `joined` writes them. *)
Joined(t, first, last, link) ==
  [k \in 1..(last - first + 1) |-> IF k % 2 = 1 THEN Word(t, first + k - 1) ELSE link]

--------------------------------------------------------------------------------
(* Reading text aloud *)

SayNumber(n) ==
  IF n < 20 THEN <<Small[n + 1]>>
  ELSE IF n % 10 = 0 THEN <<Tens[n \div 10 - 1]>>
  ELSE <<Tens[n \div 10 - 1], Small[(n % 10) + 1]>>

(* What one written piece is in words; "point" is said as "dot". *)
Say(piece) ==
  CASE piece \in {".", "point"} -> <<"dot">>
    [] piece = "/" -> <<"slash">>
    [] piece = "-" -> <<"dash">>
    [] piece = "--" -> <<"dash", "dash">>
    [] piece = "_" -> <<"underscore">>
    [] piece = "@" -> <<"at">>
    [] piece \in {ToString(n) : n \in 0..99} ->
         SayNumber(CHOOSE n \in 0..99 : ToString(n) = piece)
    [] OTHER -> <<piece>>

SayAll(pieces) == FoldLeft(LAMBDA said, piece : said \o Say(piece), <<>>, pieces)

================================================================================
