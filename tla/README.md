# Verification of ltn12ce

ltn12ce is a Lua module in C that wraps four embedded libraries (PolarSSL,
bzip2, zlib, liblzma) behind one interface: an object takes the input in chunks
through `update(data)`, `finish()` ends it, and *the concatenation of everything
the calls returned is the entire output* (`src/README.md`, lines 65-84). The
sources of the module itself are `src/src/ltn12ce_*.c`; the libraries lie beside
them and are part of the build.

The whole program is about one question: a stream is cut up, by its caller, by
the block size of an algorithm, by the buffer the output is collected in and by
the structure of the format, each cut at places the others know nothing of. Does
the cutting leave a trace in the output? A test feeds two or three chunks; the
specifications here feed all of them, and the proofs every one of any size.

Line numbers are those of the commit in `src/`; a path like `bzlib.c:298` is
below `src/src/bzip2`, `cipher.c` and `aes.c` below `src/src/polarssl`,
those of zlib below `src/src/zlib`, those of liblzma below `src/src/lzma/common`,
`lzma/lz` and `lzma/lzma`, `ltn12ce_*.c` in `src/src`.

## 1. Inventory

There is one thread. A Lua program calls a method of an object, the C function
runs to its end, and returns a string or raises a Lua error (a `longjmp`, from
wherever the function is, also out of the middle of a loop and out of a
`lua_pushlstring` that finds no memory). Objects share nothing with each other:
they interact only through the strings a caller passes from one to the next.
What makes the code hard is therefore not interleaving but *sequences of legal
calls*, *limits that cut each other up*, and *what is left in an object when a
call ends early*.

| Component | State | Operations | Correct when |
|---|---|---|---|
| Cipher objects: `ltn12ce_crypto.c` over `cipher.c` | operation, key length, round keys, IV, `unprocessed_data`/`unprocessed_len` | `setkey`, `reset`, `update`, `finish` | the cached bytes are exactly the input that has not come out; the output is that of one call; `finish` finds its block; no output outgrows its buffer |
| Modes of operation: the loops of `aes.c` (the other ciphers have the same) | none: the caller passes IV, key stream block, offset | `aes_crypt_cbc`, `_cfb128`, `_ctr` | a call on a joined input is two calls in a row; deciphering undoes enciphering |
| Bzip2 compression: `ltn12ce_comp_bzip2.c`, `bzlib.c`, `compress.c` | mode, state, the counted run, the block, `zbits`, `avail_in_expect`, the output buffer | `update`, `finish` | one whole stream of the text; the block fits its memory; every call returns |
| Bzip2 decompression: same wrapper, `bzlib.c`, `decompress.c` | parser state, the block, the position and run being put out, checksums | `update`, `finish` | what has come out is the text, damage never passes; every call returns |
| Zlib compression: `ltn12ce_comp_zlib.c`, `deflate.c`, `trees.c` | status, `last_flush`, the sliding window, hash chains, the match being decided, the symbols of the block, pending output | `update`, `finish` | one whole stream of the text; the window slides in time, chains stay sound; every call returns |
| Zlib decompression: same wrapper, `inflate.c`, `inffast.c` | mode, bit buffer, length and distance at work, the circular window, check value | `update`, `finish` | what has come out is the text, damage never passes; `update` refuses only damage; every call returns |
| LZMA, both directions: `ltn12ce_comp_lzma.c`, `common.c` | `lzma_code`'s sequence, `allow_buf_error`, the saved `avail_in` | `update`, `finish` | calls out of sequence are refused, calls without progress end |
| LZMA compression: `stream_encoder.c`, `block_encoder.c`, `lz_encoder.c`, `lzma2_encoder.c`, `lzma_encoder.c` | the field at work, sizes and check value, the window, what is read ahead, the chunk at work | `stream_encode` and what it calls | one whole stream; the window keeps what a match or a copied chunk needs |
| LZMA decompression: `auto_decoder.c`, `stream_decoder.c`, `block_decoder.c`, `index_hash.c`, `lz_decoder.c`, `lzma2_decoder.c`, `lzma_decoder.c` | mode of each layer, sizes and check value, the circular dictionary, the last four distances, the match at work | `stream_decode`/`alone_decode` and what they call | as zlib; the dictionary holds what a distance may ask for |
| Filters of a block: `simple_coder.c` with `arm.c`, `armthumb.c`, ..., `delta_decoder.c` | the bytes a filter keeps back, its position, the last bytes of delta | `simple_code`, `delta_decode` | what has come out, and what waits, is the text with the filters undone |
| Digests: `ltn12ce_digest.c`, `md.c` | hash state, partial block, length counter | `update`, `finish`, `reset` | `finish` returns the hash of all chunks since the last `reset` |
| Object lifecycle: metatables, `__gc` | the userdata and what it owns | register, collect | everything is released |
| Block ciphers, hash functions, block sorting, code tables, optimisers, range coding | tables | pure functions of large data | they are the standard ones |
| Build system: `CMakeLists.txt` | none at run time | - | - |

How they interact: a caller pipes the output of one object into the next
(`test/mix.lua` compresses, enciphers, deciphers and decompresses;
`test/ciphers.lua` enciphers and deciphers). Inside an object the binding calls
the library in a loop, the library calls the algorithm through function pointers
(`cipher_info`, `md_info`, LZMA's coder chain), and memory goes through `malloc`
or Lua's allocator.

The hazards, line by line, are listed in `PROJECT.json` with the properties that
would catch them. The hardest ones:

* `unprocessed_data` means three different things in the three modes, and in CBC
  deciphering a *complete* block stays cached, because only `finish` knows
  whether it was the last one (`cipher.c:399-446`).
* `setkey` stores the operation before the key schedule looks at the key, and
  nothing but `reset` clears the cache (`cipher.c:334`, `:366`).
* `handle_compress` recognises the last block by "no run is being counted"
  (`bzlib.c:373-375`), which is right only because a full block leaves one behind.
* The room for a run is not checked when it is put into a block (`bzlib.c:298`).
* The decoder of bzip2 reads one byte ahead, beyond the end of the block
  (`bzlib.c:646`), and the way out for "the block was too short" saves nothing
  (`bzlib.c:632-634`).
* The hash functions do not store how much waits in their buffer but compute it from
  the length counter (`sha1.c:246`), whose carry compares a sum with an addend cut to
  32 bits (`sha1.c:249-253`), and pad in one or two blocks (`sha1.c:304`).
* A match may overlap itself, come from either side of the end of a circular window, and
  be cut by the buffer, by a chunk or by that end (`inflate.c:1127-1171`, `lz_decoder.h:127-181`).
* When `deflate`'s window slides, every hash chain has to slide with it; the search does not
  compare the third byte of a match and trusts the chain (`deflate.c:1417-1449`, `:1240-1275`).
* The header of a block chooses the filters its text goes through. One for machine code keeps back
  what may be the start of an instruction, converts in place and may put out half of it
  (`simple_coder.c:103-190`).
* `inflate` and `lzma_code` differ in what a call without progress is: an error at once, and
  an error at the second time (`inflate.c:1252`, `common.c:274`).
* A chunk that did not compress is copied out of a window that has moved since
  (`lzma2_encoder.c:338-345`), and the chunk behind it must start from a fresh state (`:211`).
* The loops of `update` and `finish` have no bound of their own: every turn must
  make progress or raise an error.

## 2. Modules

| Module | Models | Stands on |
|---|---|---|
| `Filter` | the promise of the README, for any filter | - |
| `CipherModes` | the CBC, CFB and CTR loops of `aes.c` over an abstract block permutation | - |
| `Cipher` | a cipher object, all modes and both directions | - (the loops are parameters, like the function pointers in the code) |
| `CipherContract` | what `cipher.c` relies on in those loops, as assumptions | `Cipher` |
| `CipherChain` | an enciphering object piped into a deciphering one | two instances of `Cipher` |
| `ProofLemmas`, `FoldLemmas` | lemmas about sequences, remainders, `FlattenSeq` and `FoldLeft` | - |
| `CipherProofs` | the invariants of `Cipher`; `Cipher` implements `Filter` | `CipherContract`, `ProofLemmas` |
| `CipherInverse` | what two objects rely on beyond that: deciphering undoes enciphering, as assumptions | `CipherContract` |
| `CipherChainProofs` | the invariants of `CipherChain` | `CipherChain`, `CipherInverse`, `CipherProofs` for each of the two objects |
| `Bzip2Format` | run length coding, and which byte may follow which in a stream | - |
| `Bzip2Compress` | the compression filter, step by step inside a call | `Bzip2Format` |
| `Bzip2Proofs` | the invariants of `Bzip2Compress`; it implements `Filter` | `Bzip2Compress`, `ProofLemmas` |
| `Bzip2Decompress` | the decompression filter, step by step inside a call | `Bzip2Format` |
| `Digest` | a digest object: buffering, length counter and padding of all seven hash functions | - (the compression function is left out) |
| `DigestProofs` | the invariants of `Digest` | `Digest`, `ProofLemmas` |
| `ZlibFormat` | what a zlib or gzip stream says, item by item | - |
| `Inflate` | the zlib decompression filter, step by step inside a call | `ZlibFormat` |
| `InflateProofs` | the invariants of `Inflate`; it implements `Filter` | `Inflate`, `ProofLemmas`, `FoldLemmas` |
| `DeflateProofs` | the invariants of `Deflate`; it implements `Filter` | `Deflate`, `ProofLemmas`, `FoldLemmas` |
| `Deflate` | the zlib compression filter, likewise | `ZlibFormat` |
| `BlockFilters` | what the filters a block header may name make of a text | - |
| `XzFormat` | what an .xz or LZMA_Alone stream says, item by item | `BlockFilters` |
| `LzmaStream` | the loops of the LZMA bindings and `lzma_code`, for both directions | `XzFormat` |
| `FilterChain` | the coders of these filters, between the decoder of the block and the one of LZMA2 | `LzmaStream` |
| `XzDecode` | the decoders under `lzma_code`, step by step | `FilterChain` |
| `XzEncode` | the encoders under `lzma_code`, step by step | `LzmaStream` |
| `MC*` | instances for TLC | |

Every component module instantiates `Filter` with a refinement mapping
(`Contract == INSTANCE Filter WITH setup <- ...`); `FilterContract` is the
property that the object implements it.

### The history variables

`fed`, `out` and `stage` do not exist in the code. They are what a caller sees:
the chunks since the stream began, the strings returned since then, and where it
is. `stage = "stale"` is everything the README does not speak of: after an error,
between `setkey` and `reset`, after `finish`. There the models still perform every
call the code would, but only the properties about buffers, types and termination
speak about it. Every call that returns a string may instead run out of memory
(`Raise("stale")`, or the third alternative of `Return`): what the library had
done stays done.

### Cipher

One action per path through `lcipher_setkey`, `lcipher_reset`, `lcipher_update`
and `lcipher_finish`, each atomic, because nothing can happen between the lines
of one call. `UpdateCached` is the early return of `cipher_update`
(`cipher.c:399-409`), `UpdateBlocks` its three stages (complete the cached block,
hold back the leftover, process what lies between), `UpdateStream` CFB and CTR;
`FinishEncrypt`, `FinishDecrypt`, `FinishIncomplete` and `FinishStream` the ways
through `cipher_finish`. `SetKey` has the refused key in it: `key_length` and
`operation` change, `schedule` does not. `schedule` stands for `cipher_ctx`: which
key the round keys were made of, and for which direction. Keys and IVs are
arbitrary, bytes are numbers below `N`.

`unprocessed_data` keeps only the bytes written last, as nothing reads beyond
`unprocessed_len`, except that in CTR mode it is the whole key stream block.
Calls before the first `setkey` are outside the interface of `cipher.h` and left
out, and so is the destructor.

### Bzip2Compress and Bzip2Decompress

Here a call is many steps, because the interesting states are inside of it. `pc`
says where: `"idle"` between calls, `"loop"` at the head of the loop in
`lbzip2_update`/`lbzip2_finish`, `"handle"` inside `handle_compress` (`"decode"`
inside `BZ2_bzDecompress`), `"called"` behind the library call. One byte of input
is one step (`CopyInput`, `ReadHeader`, ...); bytes of output are copied as many
at once as the code's inner loop copies (`CopyOutput`, `PutRun`).

A byte of compressed data is abstracted to the part of the stream it belongs to,
its place in that part, the content of the block, and whether the checksum there
is right. Sorting, move-to-front and Huffman coding only decide *how many* bytes a
block takes, which `CompressBlock` picks freely. The run length coding in front of
them is modelled as it is, with counts, since it interacts with block limits.

The decompressor's parser has 38 states between the first and the last byte of a
block; `at` counts bytes instead. `Overrun` models what the code does with a block
that ends in the middle of a run code, including that it saves nothing. Left out:
`BZ_FLUSH` and the small decoder, which no caller in this program selects.

### Digest

One action per method, atomic. `md_info` is the family: `"sha"` for MD4, MD5, SHA-1,
SHA-2 and SHA-512, which have the same `update` and `finish` but for block size and byte order,
`"md2"` for the one that keeps `left` itself. `processed` stands for the chaining
state: it is the text that went through the compression function, and whatever
that function is, equal texts give equal states. A digest is therefore the
processed text as well, and `finish` appends it to `out` as one element. The
functions are operators on records, because `finish` calls `update` twice.
`buffer` keeps the bytes written last. `results` is how many values the last call
of `update` or `finish` gave back to Lua.

Calls after `finish` without `reset` are in the model (the context is left as
`md_finish` left it), up to `MaxProcessed` bytes.

### Inflate

`pc` says whether the call is at the head of the loop of the binding, inside
`inflate()` (there `mode` says where), at `inf_leave`, or behind the library call. The
bits of a stream are grouped into *items*: a header, a code, a distance, a check value. A
byte is the sequence of items it completes, none or several, since Huffman codes end
anywhere; `hold` is the bit buffer, the items that need no further byte. So the places
where `NEEDBITS` can run out of input are all there, and how bits make a code is not.
The modes between two items wait for the bytes of the second one and have no action.

`Match` copies what one turn of the code copies, from the end of the window, its beginning
or the buffer; `DecodeFast` is a turn of `inflate_fast`, taken under the condition of
`inflate.c:1028`. `UpdateWindow` has the two parts of `updatewindow`. The check value is the text it was
computed of, so text summed twice or not at all shows. `NeedDict` shows what the binding
does with `Z_NEED_DICT`, which is positive and so no error to it.

`ZlibFormat` defines what a stream says with the whole text at hand (`Parse`); it knows
nothing of windows, buffers and chunks. `DecodedIsText` compares the two after every step.

### Deflate

`deflate_state` is the record `s`; `InsertString`, `Slide`, `LongestMatch`,
`FlushBlock` and the rest are functions on it, and the actions are the turns of `fill_window`,
`deflate_stored`, `deflate_fast` and `deflate_slow`. The window, the hash chains
with their rolling hash (`Xor`, the `^` of C, is a constant; TLC is given the XOR of two bits), the search with its limits (`good`, `lazy`, `nice`, `chain`, and
the third byte that is not compared), lazy evaluation, the symbol buffer, the
choice to store a block and `flush_pending` are the code's. What a symbol takes in the output
is fixed at half a byte, enough for blocks to end inside one (`bits`). Whether a block is stored or coded
is left open where the code compares lengths.

`configuration_table` is a constant, so that levels of each kind fit a window of a few bytes.

### LzmaStream, FilterChain, XzDecode and XzEncode

The coders of liblzma call each other through function pointers, from the stream down to
the LZMA decoder or encoder; `pc` says which of them is at work, and each return value
goes up through all of them as in the code. `c` is a record with the state of all.
`LzmaStream` has the binding's loops and `lzma_code` around them: which call is refused
(`Refused`), what is saved, and what happens to a call without progress.

`XzDecode` reads the format (`Detect`), block headers, chunks of both kinds,
padding, check values, the index and the footer; `dict`, `pos`, `full` and `limit` are
the dictionary, and `Room` is how far the symbol at work may go on. Range coding is left out as
Huffman coding is in `Inflate`: a byte completes some symbols. One thing is coarser
than the code: at a limit in the middle of a chunk `rc_normalize` may already have taken a
byte that belongs to the next symbol; here it is taken with that symbol. The check value of a block is
compared where the library can compute it (`Verified`: none, CRC32, CRC64, SHA-256); one of a reserved kind
is read over.

`FilterChain` has what the block header puts between `block_decode` and `decode_buffer`: `simple_code`
as steps (`FlushFiltered`; `FillOut` and `OutFilled` where there is room for more than waits in the
filter's buffer, `FillBuffer` and `BufferFilled` where there is not; `NextFails`) and `delta_decode`
(`DeltaReturns`). `c.chain` is the states of the filters, `c.at` says which of them is at work. Filters
may stand behind one another, so `Target` is where the output of the one at work goes: to `buf`, or to the
buffer of a filter in front of it that has asked for more there. What a filter does to bytes at hand
(`Coded`) comes from `BlockFilters`: that of ARM steps by whole instructions, that of ARM-Thumb
by half ones. They stand for PowerPC, SPARC, IA-64 and x86, which differ behind the function pointer of
`call_filter`. `BlockFilters` also has the reference: `Undone`, a filter undone on a whole text at once.

`XzEncode` has the window (`FillWindow`, `Moved`), the read-ahead, the chunk that becomes
compressed or uncompressed when it is full (`FlushChunk`), headers that announce what is reset, padding, check
values and the index. What the optimisers choose is left open among the symbols that say the
next bytes, but how far they read before they choose is a parameter (`Presets`), as this is what
the window has to allow for. A literal or a match makes one byte, a repeated match none.

In the modules of all three libraries the type invariant is either a property of its own or the
first conjunct of an invariant named in the runs: `DictHoldsText` in `XzDecode`, the first
invariant of the run elsewhere.

## 3. Runs

| Run | Shows | Size |
|---|---|---|
| `cipher` | type, cache, output of one call, `finish` finds its block, outputs fit, refinement of `Filter`; all modes, every order of calls | 54,750 states |
| `cipher_contract` | the assumptions of the proofs hold of the loops of `aes.c`; for every IV and short text, two chained objects arrive at the same IV, key stream block and offset (`InStep`) | 10,278 states |
| `cipher_refused_key` | finding 1 | violation |
| `cipher_chain` | text returns whole and in order through two objects with chunks of their own, and less than two blocks late | 471 states |
| `bzip2_compress` | types and block fit, last block recognised, nothing lost at any step, calls return, refinement of `Filter` | 36,811 states |
| `bzip2_decompress` | types; decoded and pending bytes are the text at any step, calls return, refinement of `Filter` | 5,425 states |
| `digest` | buffer and length counter are those of the message, refinement of `Filter`: the digest is that of the padded message as the RFCs define it, however it is cut | 177,668 states |
| `zlib_inflate` | decoded and pending bytes are the text at any step, the circular window holds the output, calls return, refinement of `Filter` | 49,637 states |
| `zlib_buf_error` | finding 2 | violation |
| `zlib_deflate` | the assertions of `deflate.c`, sound hash chains, symbols are the text at any step, calls return, refinement of `Filter` | 103,514 states |
| `xz_decode` | decoded and pending bytes are the text at any step, the dictionary holds it, `update` refuses only damage, calls return, refinement of `Filter`; with and without filters in front of LZMA2 | 195,515 states |
| `xz_encode` | the assertions of the encoders, chunks put out and at work are the text at any step, calls return, refinement of `Filter` | 313,399 states |

The bounds, and why they are enough:

* `cipher`: `B = 2`, bytes of two bits, `MaxFed = 7`. Messages: a text of five
  bytes (two blocks and a half), and what a key makes of a text of three bytes
  and of an empty one. Every chunk from nothing to the whole message occurs, so
  an update starts with each fill of the cache, spans zero to three block limits
  and ends before, at and behind one. Block size one would hide the cache; larger
  ones add fills between empty and full but no new comparison of lengths. The
  block permutation is a toy, but it depends on the key and on the position, so
  that exchanged, dropped or doubled bytes show, and round keys made for the other
  direction act like another key. `Keys` has one key of
  a good and one of a refused length.
* `cipher_contract`: the assumptions quantify over *all* states and inputs, hence
  `B = 2`, three byte values, inputs of up to four bytes to a stream mode and of up to
  `MaxFed + B = 6`, three blocks, to CBC, and every way to split them. The texts of the two objects are
  all of up to three bytes (with the padding, two blocks in CBC; more than a block of key stream), under
  all IVs, so that what `InStep` compares does not hang on the one IV and the three texts of
  `cipher_chain`.
* `cipher_chain`: `B = 3` and texts of zero, two and three-and-a-third blocks, so
  that the two objects are out of phase at every offset.
* `bzip2_compress`: `MaxRun = 4` (255 in the code), `NBlockMax = 2`, `BufSize = 2`,
  compressed blocks of at most `MaxZ = 2` bytes, texts of up to `MaxFed = 6` bytes
  over two values in chunks of up to `MaxChunk = 3`. The longest run is just long
  enough to have a count, a block is full after one or two runs, and the buffer is
  smaller than what one block and the header take: each limit is hit in the middle
  of every other one. Making them larger moves the limits apart. `blockNo` counts
  to two ("first" and "later" is all the code asks of it).
* `bzip2_decompress`: `Streams` are eight streams: an empty one, one of two blocks, one
  with a byte behind it, wrong checksums of a block and of the trailer, a block
  without its last count, a wrong magic, and one that breaks off into garbage. They
  contain runs of one to three, of four and more at the end of a block and
  before it, and counts equal to the byte of the run. `BufSize = 3` is less than a
  run. They are cut into chunks in every way, and `finish` may come anywhere.
* `digest`: `BlockSize = 4` with a length of `LenSize = 2` at its end: a message may end
  in front of, at and behind the last place where one block of padding is enough.
  `Word = 16` and one message whose first `MaxFed = 40` bytes are fed in every way, in
  chunks of up to `MaxChunk = 15`: the low word wraps twice, the length in bits also
  wraps into the high word.
* `zlib_inflate`: `BufSize = WSize = 4`, so a match starts in one call and ends in
  another, in a window that wraps every few bytes. Eleven streams: zlib and gzip, stored and coded
  blocks, matches of distance 1 to 4 that overlap themselves and reach the far end of the window,
  an empty one, wrong check value and length, a distance too far, bits that mean nothing, one that
  needs a dictionary, one that breaks off, one with a byte behind it. They are cut into chunks in every way. `FastIn = 2`,
  `FastOut = 3` let `inflate_fast` run for one or two symbols between slow ones.
* `zlib_deflate`: `WSize = 13` with matches of 3 or 4 bytes leaves `MAX_DIST = 5`; the text of
  34 bytes over two letters slides the window twice and has matches that become better a byte
  later, overlap, and are just out of reach. `LitBufSize = 6` ends blocks after five symbols, `BufSize = 6` is less
  than a block. One level of each kind, no chain longer than four. Chunks of 0, 2, 5 and 24 bytes
  starve `fill_window` and fill it to the end.
* `xz_decode`: `BufSize = 3`, `DictSize = 4`. Twenty-eight streams; besides those kinds that
  `zlib_inflate` has, a dictionary reset inside a block, a match beyond it, chunks that may not follow each
  other, a match longer than its chunk, a chunk longer than it says, sizes that disagree with the block header
  or the index, a check value of a kind that cannot be verified, and the older format with
  and without a known size and an end marker. Eight of them have filters in front of LZMA2: ARM, ARM-Thumb
  and delta alone, two and three in a row, two blocks with different chains, a start offset that is not aligned, an unknown
  filter, and a check value that does not match the converted text. Instructions are scaled from four bytes to two (`Look`),
  bytes have `Values = 8` values, delta remembers `HistSize = 2`; the buffer of a filter, for two
  instructions, holds four bytes and so more than `BufSize`. The texts of machine code end with less than an
  instruction, and have calls that lie across the end of a chunk, of the buffer and of the dictionary.
* `xz_encode`: a window of 18 bytes, chunks of at most 10, `DictSize = 3`. One text is
  longer than the window and repeats only behind the place it is moved over; the other
  makes compressed and uncompressed chunks in turn. Checks of no and of some bytes; optimisers that read one
  and three bytes ahead. Chunks of 5 bytes and the whole rest.
  All header kinds (reset of nothing, of the state, of the properties, of the dictionary) occur.

`MaxStale` bounds what is fed outside of a stream, after an error. Deadlock is checked everywhere except in `cipher_chain`, which stops when both
objects have finished.

### Fairness

`Cipher` and `Digest` need none: their calls are atomic. The modules of the three compression libraries have `WF_vars(System)`:
a call that has begun is executed to its end by the one thread there is. `Caller`
(create, update, finish) is not fair: no program has to make another call. Under
this, `CallsReturn` says that no call loops for ever.

### Seeded faults

Next to some definitions stands a second one whose comment begins with "Seeded
fault": the same definition with a mistake one could make in that code (a
remainder of the wrong length, a reset that keeps the cache, a comparison that
forgets the cached bytes, a run that goes out with the wrong block, an error that
is not looked at). Nothing uses them. Put in the place of the definition they
follow, each makes the run named in `PROJECT.json` ("mutants") fail on the
property named there; they show that the properties can tell right from wrong.

## 4. Theorems

`CipherProofs` proves, for every block size, set of keys,
IVs and messages and every sequence of calls:

| Theorem | Establishes |
|---|---|
| `TypeCorrect` | `Spec => []TypeOK`: in particular the cache never outgrows `unprocessed_data` |
| `CacheCorrect` | `Spec => []CacheHoldsTail` |
| `ChunksLeaveNoTrace` | `Spec => []OutputOfOneCall` |
| `FinishIsPossible` | `Spec => []FinishHasItsBlock` |
| `BuffersSuffice` | `Spec => OutputFits`: no call overruns the buffer the binding allocates |
| `CipherKeepsContract` | `Spec => FilterContract`: a cipher object implements the promise of the README |

*Assumptions.* `CipherConstants` (block size positive and a byte value, IVs are
blocks, messages are byte strings of bounded length), and the four of
`CipherContract`: cipher.c calls `cbc_func` on whole blocks only and gets as many
bytes back (`CbcContract`), a call on a joined input is two calls, the second
starting from the IV the first left (`CbcChaining`), and likewise for the stream
modes with key stream block and offset (`StreamContract`, `StreamChaining`). They
are exactly what the generic layer may expect of a function pointer. That the
loops of `aes.c` satisfy them is checked by TLC in `cipher_contract` and not proved:
`CipherModes` is the one module whose loops are recursive functions over the input.

*Argument.* The inductive invariant is `IInv == TypeOK /\ CacheHoldsTail /\
OutputOfOneCall /\ FinishHasItsBlock`. No conjunct is inductive alone.
`OutputOfOneCall` says that `out` is the output for a prefix of `fed`; a step that
extends it needs to know that the cache is what follows that prefix
(`CacheHoldsTail`), and that the prefix ends at a block limit, so that `CbcChaining`
applies. `CacheHoldsTail` in turn needs the arithmetic of `CopyLen` and
`HoldLen`: whatever is left after the cached block is complete, minus what is held
back, is a multiple of the block size (`ProofLemmas`). The refinement proof
follows the actions: every successful call is an `Update` or `Finish` of `Filter`,
a refused one a `Refuse`, and `finish` being the output of the whole message comes
from `IInv` and one more use of the chaining assumptions.

`CipherChainProofs` proves, for every block size, key, IV and set of texts, and however both
callers cut what they pass on:

| Theorem | Establishes |
|---|---|
| `TextComesBack` | `ChainSpec => []RoundTrip`: what comes out of the second object is the text so far, all of it when both have finished, and the second one never refuses |
| `LagIsBounded` | `ChainSpec => []BoundedLag`: the text is less than two blocks behind, and not at all in a stream mode |

from the assumptions of `CipherContract` and two more, `CbcInverse` and `StreamInverse`
of `CipherInverse`: under one key and IV, the loop for deciphering undoes the loop for
enciphering. TLC evaluates both of the loops of `aes.c` in `cipher_contract`
(`CiphertextFits` only gives the bound on lengths room for the padding). *Argument.* Each object
keeps the invariant `IInv` of `CipherProofs`, the second one under an instance whose messages
are whatever the pipe may hold. `ChainInv` adds what relates the two: the same key and IV
(`SameSetup`), the pipe is a cut of the first one's output (`PipeHoldsRest`), neither has
refused, and what each has put out once it has finished. The output of the first is
that of one call on a prefix of the text and the padding (`OutputOfOneCall`, with the chaining
assumptions), the output of the second that of one call on a prefix of the pipe; a prefix of
whole blocks of what was enciphered is what the same prefix of the text enciphers
to, so the inverse applies. That finishing never fails needs that the padding that comes back
is the one that was added.

`DigestProofs` proves, for every block size, word and message and every sequence of
calls:

| Theorem | Establishes |
|---|---|
| `BufferingLosesNothing` | `Spec => []StateHoldsInput`: processed and waiting bytes are the message, in whole blocks and a rest |
| `LengthIsCounted` | `MaxChunk < Word` implies `Spec => []LengthCounted`: the counter is right as long as no chunk is longer than a word counts |
| `DigestKeepsContract` | `MaxChunk < Word` implies `Spec => FilterContract`: `finish` returns the digest of the message with the padding of the RFCs, however it was cut |

from `DigestConstants` (block size and word positive, the word a multiple of 8 and of
the block size, messages byte strings) and, for the last one, `LengthBytes`: the two words of a length fill
the `LenSize` bytes of `msglen`, as four or eight `PUT_UINT32_BE` on an array of that size do. The heart of it are `ShaUpdateTakes` and
`Md2UpdateTakes`: whatever the state and the input, `update` appends the input to
what has been processed and what waits. For the SHA family this needs that the
low word still gives the right remainder after it has wrapped, which is why the
word has to be a multiple of the block size (`ModOfMod`). The invariant `IInv` adds to
`StateHoldsInput` that the number of waiting bytes is less than a block and that an
object nobody has created yet is empty. `LengthIsCounted` adds `WordsCount`, the two
words as digits; the hypothesis on chunks cannot be dropped (section 5).
For the contract, `LengthInBits` shows that `total[0] >> 29 | total[1] << 3` and `total[0] << 3` are the
two words of the length in bits, `ZerosAreUnique` that `padn` is the one number of bytes that completes a block,
and `ShaFinishPads` applies `ShaUpdateTakes` to both updates of `finish`: nothing waits after the second,
so all of message, padding and length has been processed. The invariant adds `NothingOut`, without which the
step of `create` would not start a message.

`Bzip2Proofs` proves, for every set of characters, longest run, block size, buffer
size and sequence of calls:

| Theorem | Establishes |
|---|---|
| `BlocksFitTheirMemory` | `Spec => []BlockFits`: types, and a block never holds more than five bytes above `NBlockMax` (the code leaves 19 of its memory spare, `bzlib.c:194`) |
| `LastBlockIsRecognised` | `Spec => []FullBlockLeavesRun`: a full block always leaves a run to be counted |
| `NothingIsLost` | `Spec => []NothingLost`: at every step what came out, the block, the counted run and the unread input make up the text |
| `Bzip2KeepsContract` | `Spec => FilterContract`: the compressor implements the promise of the README and refuses nothing |

from `Bzip2Constants`. `BlockFits` is not inductive: `handle_compress` adds the last run of
a block without looking at the room (`flush_RL`), up to five bytes of it. The missing part is
`FillingBlock`: a byte is only taken while the block is not full, so a block that is full
became so by the run in front of the byte just taken, and then exactly that one byte is being
counted: the unchecked run adds a single byte. The same fact is `FullBlockLeavesRun`, on which
the test for the last block of a stream rests. `HandlesOpenStream` (the loop runs only for a
stream that is not over) and `BuffersHold` (the buffers are sequences) complete the invariant.

For `NothingIsLost` the invariant `TextInv` follows the data. What has been made so far, put
out or not, is the beginning of a stream (`StreamSoFar`), and its text, the runs in the block,
the run that is being counted and the unread input concatenate to `fed` (`NothingLost`). The
counted run may be put into the block at any time: whoever reads the block expects no count there and does
not take the run for the rest of the one in front (`OneRun`, `ReaderReady`); and a block that has been
made takes at least a byte (`ZbitsHold`). Text of compressed data is by `FlattenSeq`, whose equations
(`FlattenAppend`, `FlattenConcat`) are proved by induction in `ProofLemmas`. The refinement uses
`InOrder` (the library is never called out of sequence in a stream) and `Moves` (every turn
makes progress): so neither of the two errors the loops of the binding look for is raised.

`InflateProofs` proves, for every set of streams, window, buffer and look-ahead and every
sequence of calls:

| Theorem | Establishes |
|---|---|
| `OutputFitsBuffer` | `Spec => []TypeOK`: `inflate()` and `inflate_fast` never put out more than `avail_out`, and `wnext` and `whave` stay those of a circular buffer |
| `WindowIsOutput` | `Spec => []WindowHoldsOutput`: the window holds the end of all the output in front of a call, as much as a distance can reach |
| `TextIsDecoded` | `Spec => []DecodedIsText`: at every step what was put out and what waits for room is the text of the items read |
| `InflateKeepsContract` | `Spec => FilterContract`: `finish` returns with the text of the whole stream the input begins with, and nothing but what is no whole stream is refused |

from `InflateConstants`, `StreamBytes`, `StreamItems` (items have their fields, and no
match is longer or goes further back than its code can say) and `StreamAlignment`. The last
one says of the grouping of bits into items what the format says of bits: a byte where a stored
block goes on is a byte of it whatever it is, and bits behind the last block up to the
end of the byte are no item. It holds of sound and of damaged streams alike; TLC evaluates it
for those of `zlib_inflate`. *Argument for the window.* The window is brought
up to date when `inflate()` is left, while the output grows at every step of it, so the
invariant `Inv == Types /\ WindowFollows /\ Between` says what the window holds at each place of
a call: in front of and during `inflate()` the end of `out \o luabuf`, behind it the end of
`out \o luabuf \o buf`. For that `updatewindow` has to take the whole buffer, which it does
because `out0` is moved only by the check of the text, behind the blocks: in front of that
`out0 = BufSize` (`WindowFollows`). `WindowTakesOutput` shows that the two or three pieces
`updatewindow` copies leave the end of the longer text, by the arithmetic of `Places` (where the byte
d places before the new write index comes from). `CopyMatchType` and `FastMatchType`
show that a match of distance within `whave` reads only bytes that were written; for
`inflate_fast` one also needs that its bounds on input and room cover two whole items and the
longest match (`MoreInput`, `FastItems`). The fifteen actions inside `inflate()` share the lemma
`InsideKeeps`: none of them touches the window.

*Argument for the text.* `TextInv` relates the decoder to the reference parser: there is a state p
of the parser which it reaches by the items read (`Parsed`; `Reached` says that those items, `hold` and
the input are the stream), and for every `mode` it says how p and the text put out differ
(`SaysAt`): in `LIT` one byte, in `MATCH` the rest of the match, in `DIST` a length without a
distance, else nothing. `ParseItem` is folded over the items, so reading one item is one step of p; that is
`FoldAppend` of `FoldLemmas`, taken for the parser by INSTANCE. Each action has then one lemma
(`MatchText`, `CopyStoredText`, `DecodeFastText` and so on): one item, one byte out, or
several of both. A match uses `WindowIsOutput`, and that a match copied in pieces is the match
(`RepeatSplit`). `Checked` says what of the text the check value covers at each place of a call,
and `Outcome` why `inflate()` was left: of no room, of no input, or for good. The
refinement follows from that: an error of `update` or `finish` means that the parser is not at
the end of a stream, and `STREAM_END` that it is. That an update may refuse a sound stream which
is not all there yet (finding 2) is no contradiction: what it has been fed is no whole stream.

`DeflateProofs` proves, for every set of texts, every configuration of the levels, every size of
window, hash table, symbol buffer and output buffer and every sequence of calls:

| Theorem | Establishes |
|---|---|
| `AssertionsNeverFail` | `Spec => []AssertionsHold`: types, and the assertions of `deflate.c` that a release build does not check: the window slides in time, there is room to read, and a block that can only be stored is still in the window |
| `ChainsAreSound` | `Spec => []ChainsShareKey`: what is near enough on the chain of a hash key has that key, and every chain goes back in the window |
| `SymbolsSayTheText` | `Spec => []SymbolsAreText`: at every step the blocks put out and the symbols of the next one are the text read so far, up to the byte being decided |
| `DeflateKeepsContract` | `Spec => FilterContract`: `finish` completes one whole zlib stream that says what went in, and no call raises an error |

from `DeflateConstants` (sizes; and no line of `configuration_table` but that of level 0 stores), `XorType`
and, for all but the first, `HashRolls`. Of XOR nothing more is used than these say: it stays below
`hash_size`, a byte leaves the rolling hash value after three more, and two strings that agree in two bytes
and in the key agree in the third (`deflate.c` says of this "`HASH_BITS >= 8`"). *Argument for the assertions.* `IInv` is the types
of what the call keeps (`IoTypes`) and `SInv(s, pc)`: the types and bounds of `deflate_state` (`Shape`), one
conjunct for each of the three ways to make blocks (`StoredMode`, `FastMode`, `SlowMode`), and
where in its turn the call is (`TurnMode`). The assertions by themselves are not inductive. For level 0
one needs that a block which is not flushed is shorter than `MAX_DIST` and than `MaxStored`: then it
has not left the window when that slides. For the lazy levels one needs that the match of the byte before
lies within that byte and the lookahead, for else `strstart` could pass the end of what has been
read. *Argument for the chains.* `ChainInv(s, pc)` says that there is a *set* of positions (`Linked`) that
contains every near head of a chain, is closed under `prev` as long as that is near enough, and on which each
link goes back and keeps the key. Stated of a set, nothing has to be said of the length of a chain, and a
slide, an insertion and a string that is left out each change that set in a simple way
(`LinkedSlide`, `LinkedInsert`, and that the reach shrinks as `strstart` grows). The second conjunct, `HashedFrom`, says that
`ins_h` hashes on as if only the first two bytes of the next string were in it: `fill_window` sets it anew for that,
since strings at the end of the input are not inserted.

*Argument for the text.* `SymbolsAreText` speaks of streams and of a reference parser, the code of a window that
slides under it. `TextInv(s, pc)` is what connects the two. The window holds the end of the text read
(`WindowText`); the match a turn has in hand, and the one of the byte before, are a match of the *text*
(`MatchText`: each byte is the one `distance` bytes back, so one may reach into itself);
and the symbols say the text from the last block on (`SymText`), whatever length the parser had in hand and
whether or not the block is the last one (`SymbolsSay`). That the search finds such a match is `FoundMatch`: the two strings
are compared without their third byte, but they are linked, so have the same key, so `HashRolls` gives
that byte (this is where `ChainsAreSound` is needed), and a position it starts from is never in front of the window.
A match is cut at the lookahead, since what is behind that in the window is left from before.
Each turn of `deflate_fast` and of `deflate_slow`, `fill_window` and the blocks then keep `TextInv`, one lemma each. What has been put
out is followed by `InBlocks`: between two blocks the parser waits for a block, with the text up to
`block_start`. A stored block is the one whose bytes come from the window and not from symbols; that
they are still there is `AssertionsNeverFail`.

*Argument for the contract.* `OpenInv` adds that what was fed is what has been read and the input (`fed =
s.adler \o input`), what the output says in each `status` (`StreamInv`; it is *made* in the order `out \o luabuf
\o buf`, then `pending`, then the bits of the last byte, which is `Ahead` and `Put`), and what of input and room
each place of a call leaves (`CallInv`). The last one carries the refinement: `deflate` is never
called without input and room after a call that had none of them either, so that `Z_BUF_ERROR`, which the binding would raise, never
comes; it returns `Z_OK` only with the buffer full or the input read; and `Z_STREAM_END` only when
the check value has left `pending`. `NoErrorOpen`, `CallReturnsOpen` and `FinishReturns` put that together.

`ProofLemmas` and `FoldLemmas` hold what several of these proofs need. The library's induction theorems take
an operator as a parameter, which the provers cannot instantiate; stated with a *set* of numbers or of sequences
instead (`NatInductionInSet`, `SeqInductionInSet`) they can be used, and so `FlattenSeq` and
`FoldLeft`, which the community modules define by a recursive function on sets of places, get their
equations proved. `FoldLemmas` is taken by INSTANCE, once for every operator that is folded, and so extends as little
as it can; for the same reason `Filter`, which every component instantiates, spells out its `IsPrefix`.

*Only model-checked:* the LZMA modules, `InStep`, `Bzip2Decompress`, the types of `Digest` (its buffer would need a
type for `Checksum`, of any text; the proofs do without), the assumptions above, and liveness (`CallsReturn`; liveness under fairness and
`ENABLED` are out of the prover's reach).

## 5. Findings

1. **A refused key changes the operation** (`cipher_refused_key`). `cipher_setkey`
   stores `operation` and `key_length` before the key schedule function sees the
   key. A `setkey` that raises an error on an object that already has a key leaves
   the new operation beside round keys of the old direction; `cipher.h:188`
   documents the field as the "operation that the context's key has been
   initialised for". A caller who catches the error and goes on gets output, and
   no error. In CFB mode only what is fed back changes, as both directions use the same round keys.
2. **A sound zlib stream may be refused** (`zlib_buf_error`). `update` calls
   `inflate()` again as long as the buffer comes back full (`ltn12ce_comp_zlib.c:84`). If a chunk ends exactly where
   the text fills the 4096 bytes, that call has no input and nothing to put out, and
   answers `Z_BUF_ERROR`; `if (ret < 0)` at line 80 takes it for an error, although `zlib.h:497` says
   "Note that Z_BUF_ERROR is not fatal, and inflate() can be called again". The string of the
   whole call is lost with it. `deflate()` is not concerned: `last_flush` is set so that the
   next call cannot fail (`deflate.c:910`), which `zlib_deflate` checks. Neither is LZMA:
   `lzma_code` excuses the first call without progress, and `update` never makes a second
   (`UpdateRefusesOnlyDamage` in `xz_decode`).

Things the models show that are worth knowing:

* *Ends that are not looked at.* `finish` of a bzip2 decompressor does nothing but return `""`
  (`ltn12ce_comp_bzip2.c:97`): a stream that breaks off is accepted, and if it does so behind a full buffer,
  decoded text stays in the object. Whole streams are safe, as their trailer is read only behind the
  last byte of text. zlib and LZMA do refuse a stream that is cut off, LZMA by the second call
  without progress (`common.c:274`).
* *Bytes behind the end* of a bzip2 stream are dropped if they arrive in the chunk that holds the
  end, and are an error if they arrive in the next one. zlib drops them always, LZMA too (after the end `lzma_code` says
  `LZMA_STREAM_END` to anything, so `update` swallows whole chunks).
* *A preset dictionary* makes a zlib decompressor return `""` for ever: `Z_NEED_DICT` is positive.
* *Check values nobody verifies.* If the header of an .xz stream names a check of a reserved kind, its blocks
  are accepted whatever the check says (`block_decoder.c:155-162`; `check.h:61-66` and `container.h:291-295` say so), and the
  binding, which passes no flags (`ltn12ce_comp_lzma.c:154`), does not ask to be told: `finish` then says nothing about
  damage that only the check would show.
* *LZMA returns late:* text that did not fit the buffer when the input of a call had been read comes out with
  the next call; `finish` gets the last of it.
* *After a failed `finish`* of an LZMA object, `avail_in` has changed, `lzma_code` answers
  `LZMA_PROG_ERROR` to every later call, and the object is of no more use. After a Lua memory
  error in `update`, `finish` reads on behind a `next_in` whose string may have been collected.
* *Digests:* `update` returns no value (`ltn12ce_digest.c:78`) where `README.md:75` and `:112` promise an empty
  string. A chunk of 4 GiB or more is counted modulo 2^32 by MD4, MD5, SHA-1 and SHA-2 (`sha1.c:249`);
  `LengthIsCounted` proves that shorter ones are counted.
* *Ciphers:* `finish` does not clear the cache, so a second message without `reset` starts with
  bytes of the first; `get_pkcs_padding` accepts a padding length of zero.

## 6. Not modelled, and why

* *Block sorting, move to front, code tables* (`trees.c` builds and `inftrees.c` reads them,
  `huffman.c`), *range coding and the optimisers of LZMA.* Functions of large tables. What they
  decide for the rest of the program, how many bytes something takes and which symbol is chosen, is
  left open in the models, so that whatever they do is covered as long as it says the right text;
  that it does is not shown here.
* *The round functions of ciphers and hashes*: arithmetic on fixed tables, parameters of `CipherModes` and
  left out of `Digest`. The CBC, CFB and CTR loops of DES, Blowfish and Camellia differ from those of AES
  in block size only; the proofs about `Cipher` hold for any of them that satisfies `CipherContract`.
* *Unused parts of the libraries*: `BZ_FLUSH` and the small bzip2 decoder, zlib's other flush values, strategies and
  dictionaries, flushing, LZMA's filters other than LZMA2 for compression, the encoder of the older format, HMAC.
  No call from Lua reaches them.
* *Four of the six filters for machine code*: those of x86, PowerPC, IA-64 and SPARC, which the header of a block
  may name, stand behind the same function pointer as those of ARM and ARM-Thumb. How each finds its
  instructions is left out, and with it what x86 remembers of the bytes before a call
  (`prev_mask` and `prev_pos` of `x86.c`) and that it looks at five bytes and IA-64 at sixteen.
* *Randomised blocks of bzip2*: `bzlib.c:540-587` is the loop of `Bzip2Decompress` a second time, for blocks of an old
  compressor. It puts out the same bytes; it keeps its state in the object at every step,
  where the other loop keeps it in local variables and saves it when it is left.
* *One comparison of sizes*: while the index is read, its records may also take no more room than those of
  the blocks (`index_hash.c:228-252`). `TooLarge` has the sizes of the blocks and of the text only;
  the comparison at the end refuses the same streams.
* *Widths.* `avail_in` is 32 bits wide in two bindings (`ltn12ce_comp_bzip2.c:54`,
  `ltn12ce_comp_zlib.c:63`); chunks of 4 GiB are not modelled except in `Digest`, whose counter has a width.
* *Object lifecycle.* Constructors other than their effect on the state, metatables, release of memory. There is no
  state between calls that a property could be about; that the destructor of a zlib object releases nothing
  (`ltn12ce_comp_zlib.c:35`) can be read off the source.
* *Longer chains of filters* (`test/mix.lua`): each filter keeps the contract of `Filter`, and strings
  passed from one to the next are all they share, so the composition adds nothing but
  the concatenation of chunks; `CipherChain` has the one pair whose delays interact.
* *Build system, logging:* no state at run time.
