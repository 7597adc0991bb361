-------------------------- MODULE ConversionCalls --------------------------
(***************************************************************************)
(* Calls of the kernels of kleidicv/src/conversions: blocks whose samples  *)
(* are named, pixels at the edges of the colour cube, and rows and planes  *)
(* of many sizes.                                                          *)
(***************************************************************************)
EXTENDS KernelCall, Integers, Sequences, FiniteSets
LOCAL INSTANCE Channels
LOCAL INSTANCE Yuv

CONSTANTS
  Widths,          \* of rows converted from YUV
  Heights,         \* of planar YUV 4:2:0 images
  VectorLengths    \* svcntb()

Named(n) == [i \in 1..n |-> i]

MoveChannels ==
  LET rgb == Interleaved(3, 16)
      rgba == Interleaved(4, 16)
      planes(w) == [c \in 1..4 |-> Plane(c - 1, 16 \div w)]
      Moved(name, out) == /\ call' = [kernel |-> "move", to |-> name]
                          /\ result' = out
  IN  \/ Moved(EachPixel(16, <<2, 1, 0>>),
               {RGBToBGR(rgb), RGBToBGR_scalar(16), common_vector_path(rgb)})
      \/ Moved(EachPixel(16, <<2, 1, 0, 3>>), {RGBAToBGRA(rgba), RGBAToBGRA_sc(rgba)})
      \/ Moved(EachPixel(16, <<2, 1, 0, Alpha>>), {RGBToBGRA(rgb), RGBToBGRA_sc(rgb)})
      \/ Moved(EachPixel(16, <<0, 1, 2, Alpha>>), {RGBToRGBA(rgb), RGBToRGBA_sc(rgb)})
      \/ Moved(EachPixel(16, <<2, 1, 0>>), {RGBAToBGR(rgba), RGBAToBGR_sc(rgba)})
      \/ Moved(EachPixel(16, <<0, 1, 2>>), {RGBAToRGB(rgba), RGBAToRGB_sc(rgba)})
      \/ \E w \in {1, 2, 4} :
           LET p == planes(w)
           IN  Moved(Interleaved(2, 16 \div w), {Merge2(p[1], p[2])})
      \/ \E w \in {1, 2} :
           LET p == planes(w)
           IN  Moved(BytesOf(Interleaved(3, 16 \div w), w),
                     {Merge3(p[1], p[2], p[3], w)})
      \/ LET p == planes(4)
         IN  Moved(Interleaved(3, 4), {Merge3_u32(p[1], p[2], p[3])})
      \/ LET p == planes(8)
         IN  Moved(Interleaved(3, 2), {Merge3_u64(p[1], p[2], p[3])})
      \/ \E w \in {1, 2, 4} :
           LET p == planes(w)
           IN  Moved(Interleaved(4, 16 \div w), {Merge4(p[1], p[2], p[3], p[4])})
      \/ LET p == planes(8)
         IN  Moved(Interleaved(4, 2), {Merge4_u64(p[1], p[2], p[3], p[4])})

SplitChannels ==
  LET Reg(cn, w, k) == Register(Interleaved(cn, 16 \div w), k, 16 \div w)
      Split(cn, w, out) ==
        /\ call' = [kernel |-> "split", cn |-> cn, lanes |-> 16 \div w,
                    bytes |-> IF cn = 3 THEN w ELSE 0]
        /\ result' = out
  IN  \/ \E w \in {1, 2, 4, 8} : Split(2, w, Split2(Reg(2, w, 0), Reg(2, w, 1)))
      \/ \E w \in {1, 2} : Split(3, w, Split3(Interleaved(3, 16 \div w), w))
      \/ \E w \in {1, 2, 4} :
           Split(4, w, Split4(Reg(4, w, 0), Reg(4, w, 1), Reg(4, w, 2),
                              Reg(4, w, 3)))
      \/ Split(4, 8, Split4_u64(Reg(4, 8, 0), Reg(4, 8, 1), Reg(4, 8, 2),
                                Reg(4, 8, 3)))

GrayPixels ==
  LET gray(n) == [i \in 1..n |-> i]
      Gray(cn, n, out) == /\ call' = [kernel |-> "gray", cn |-> cn, n |-> n]
                          /\ result' = out
  IN  \/ Gray(3, 16, GrayToRGB(gray(16)))
      \/ Gray(4, 16, GrayToRGBA(gray(16)))
      \/ \E n \in VectorLengths : \/ Gray(3, n, GrayToRGB_sc(gray(n)))
                                  \/ Gray(4, n, gray_to_rgba_u8_sc(gray(n)))

\* The last pixels of a row, stored by the tail_path of a class with cn
\* registers.
StoreTail ==
  \E n \in {16, 32}, cn \in {3, 4} : \E active \in 1..n - 1 :
    /\ call' = [kernel |-> "tail", cn |-> cn, n |-> n, active |-> active]
    /\ result' = make_consecutive_predicates(active, n, cn)

-----------------------------------------------------------------------------
Component == {0, 1, 15, 16, 17, 127, 128, 129, 235, 240, 254, 255}

EncodePixel ==
  \E p \in Component \X Component \X Component :
    /\ call' = [kernel |-> "encode", p |-> p]
    /\ result' =
         [y420 |-> {rgb_to_y(p), rgb_to_y_vector(p)},
          u420 |-> {rgb_to_uv(p, U_Weights), compute_u_or_v_2x(p, U_Weights),
                    compute_u_or_v_sc(p, U_Weights)},
          v420 |-> {rgb_to_uv(p, V_Weights), compute_u_or_v_2x(p, V_Weights),
                    compute_u_or_v_sc(p, V_Weights)},
          yuv422 |->
            LET q == <<p[3], p[1], p[2]>>
            IN  {rgb_to_yuv422_scalar(p, q),
                 rgb_to_yuv422(p, q, FALSE),
                 rgb_to_yuv422(p, q, TRUE)},
          yuv444 |-> {rgb_to_yuv444_scalar(p), rgb_to_yuv444_vector(p),
                      vector_calculation_path(p)}]

DecodePixel ==
  \E y, u, v \in Component :
    LET each(s) == [i \in 1..16 |-> s]
        chroma(s) == [i \in 1..4 |-> s]
    IN  /\ call' = [kernel |-> "decode", y |-> y, u |-> u, v |-> v]
        /\ result' =
             [c \in 1..3 |->
                [yuv444 |-> {scalar_path_444(c, y, u, v),
                             vector_path_444(c, each(y), each(u), each(v))[1],
                             vector_path_444_sc(c, each(y), each(u),
                                                each(v))[1]},
                 yuv42x |-> {yuv420x_to_rgb_scalar(c, y, u, v),
                             yuv422_to_rgb_scalar(c, y, u, v),
                             yuv420x_to_rgb(c, each(y), chroma(u), chroma(u),
                                            chroma(v), chroma(v))[1],
                             yuv420x_to_rgb_sc(c, each(y), low(each(u)),
                                               low(each(v)))[1],
                             yuv422_to_rgb(c, each(y), each(y), each(u),
                                           each(v))[1],
                             yuv422_to_rgb_sc(c, each(y), each(y), each(u),
                                              each(v))[1]}]]

-----------------------------------------------------------------------------
EncodeBlock ==
  \/ LET block(k) == [i \in 1..16 |-> 16 * k + i]
     IN  /\ call' = [kernel |-> "encode_block", n |-> 16]
         /\ result' =
              [luma |-> {PackedLuma(block(0))},
               chroma |-> {PackedChroma(block(0), block(1))},
               even |-> {PackedEven422(block(0), block(1))},
               odd |-> {PackedOdd422(block(0), block(1))}]
  \/ \E n \in VectorLengths :
       LET block(k) == [i \in 1..n |-> n * k + i]
       IN  /\ call' = [kernel |-> "encode_block", n |-> n]
           /\ result' =
                [luma |-> {PackedLuma_sc(block(0))},
                 chroma |-> {Hi(PackedChroma_2x_sc(block(0), block(1)))},
                 even |-> {Packed422_sc(block(0), block(1), TRUE)},
                 odd |-> {Packed422_sc(block(0), block(1), FALSE)}]

DeinterleaveBlock ==
  \/ /\ call' = [kernel |-> "deinterleave", n |-> 16]
     /\ result' = LET planes == DeinterleaveRGBA(Interleaved(4, 16))
                  IN  [c \in 1..3 |-> Widened(planes[c])]
  \/ \E n \in VectorLengths :
       /\ call' = [kernel |-> "deinterleave", n |-> n]
       /\ result' = DeinterleaveRGBA_sc(Interleaved(4, n), n)

\* Rows of samples that tell every pixel and every pair of pixels apart.
LumaAt(p) == 16 + ((37 * p) % 200)
UAt(k) == (53 * k + 11) % 256
VAt(k) == (101 * k + 77) % 256
Pairs(width) == (width + 1) \div 2
LumaRow(width) == [p \in 0..width - 1 |-> LumaAt(p)]
ChromaRow(width, at(_)) == [k \in 0..Pairs(width) - 1 |-> at(k)]
InterleavedRow(width) == [b \in 0..2 * Pairs(width) - 1 |->
                            IF b % 2 = 0 THEN UAt(b \div 2) ELSE VAt(b \div 2)]

DecodeRow ==
  \E width \in Widths :
    LET y == LumaRow(width)
        u == ChromaRow(width, UAt)
        v == ChromaRow(width, VAt)
        uv == InterleavedRow(width)
        Channels(row(_)) == [c \in 1..3 |-> row(c)]
        planar(c) == YUVpToRGB_row(c, width, y, u, v)
        planar_sc(n) ==
          LET row(c) == YUVpToRGB_row_sc(c, width, y, u, v, n) IN Channels(row)
        semiplanar(c) == YUVSpToRGB_row(c, width, y, uv)
        semiplanar_sc(n) ==
          LET row(c) == YUVSpToRGB_row_sc(c, width, y, uv, n) IN Channels(row)
    IN  \/ /\ call' = [kernel |-> "row", format |-> "planar", width |-> width]
           /\ result' = [neon |-> {Channels(planar)},
                         sc |-> {planar_sc(16), planar_sc(32)}]
        \/ /\ call' = [kernel |-> "row", format |-> "semiplanar",
                       width |-> width]
           /\ result' = [neon |-> {Channels(semiplanar)},
                         sc |-> {semiplanar_sc(16), semiplanar_sc(32)}]

\* A block of pairs, as vld4 separates them.
DecodeBlock422 ==
  LET even(n) == [i \in 1..n |-> LumaAt(2 * (i - 1))]
      odd(n) == [i \in 1..n |-> LumaAt(2 * (i - 1) + 1)]
      chroma(n, at(_)) == [i \in 1..n |-> at(i - 1)]
      Block422(n, c, out) ==
        /\ call' = [kernel |-> "block422", c |-> c, n |-> n]
        /\ result' = out
  IN  \E c \in 1..3 :
        \/ Block422(16, c, yuv422_to_rgb(c, even(16), odd(16), chroma(16, UAt),
                                         chroma(16, VAt)))
        \/ \E n \in VectorLengths :
             Block422(n, c, yuv422_to_rgb_sc(c, even(n), odd(n), chroma(n, UAt),
                                             chroma(n, VAt)))

Remaining422 ==
  \E index \in {0, 32}, left \in {2, 4, 14, 16, 18, 28, 30} :
    /\ call' = [kernel |-> "remaining422", length |-> left]
    /\ result' = <<Remaining422_sc(index, index + left, 16),
                   RemainingPairs422_sc(left, 16)>>

EncodeRow ==
  \E width \in Widths, n \in {16, 32} :
    /\ call' = [kernel |-> "encode_row", width |-> width]
    /\ result' = {ChromaStores_neon(width, 16)}
                 \cup {[c \in DOMAIN s |-> <<s[c], "hi">>] :
                         s \in {ChromaStores_sc(width, n)}}

PlanarRows ==
  \E height \in Heights, width \in {2, 3, 6}, padding \in {0, 3} :
    \E begin \in 0..StripeCount(height) - 1 :
      LET stride == width + padding
          at(address) == address[1] * stride + address[2]
          rows == begin..StripeCount(height) - 1
      IN  /\ call' = [kernel |-> "planar_rows", width |-> width,
                      height |-> height, stride |-> stride, begin |-> begin]
          /\ result' =
               [stripe |-> yuv2rgbx_operation(width, height, stride, begin,
                                              StripeCount(height)),
                whole |-> yuv2rgbx_operation(width, height, stride, 0,
                                             StripeCount(height)),
                encoded |-> [u |-> [k \in rows |-> at(u_row(2 * k, width))],
                             v |-> [k \in rows |->
                                      at(v_row(2 * k, width, height))]]]

EncodeStripes ==
  \E height \in Heights : \E cut \in 0..StripeCount(height) :
    /\ call' = [kernel |-> "stripes", height |-> height]
    /\ result' = <<StripeRows(0, cut, height),
                   StripeRows(cut, StripeCount(height), height)>>

ConversionKernels ==
  \/ MoveChannels \/ SplitChannels \/ GrayPixels \/ StoreTail
  \/ EncodePixel \/ DecodePixel \/ EncodeBlock \/ DeinterleaveBlock \/ DecodeRow \/ DecodeBlock422
  \/ Remaining422 \/ EncodeRow \/ PlanarRows \/ EncodeStripes
-----------------------------------------------------------------------------
(* Every table of indices and every sequence of permutations moves each    *)
(* sample to its place: conversions between RGB, BGR and gray, merge and   *)
(* split, for every element size, on NEON and for every vector length.     *)
ChannelsInPlace ==
  /\ call.kernel = "move" => result = {call.to}
  /\ call.kernel = "split" =>
       \A c \in 1..call.cn :
         LET plane == Plane(c - 1, call.lanes)
         IN  result[c] = IF call.bytes = 0 THEN plane
                         ELSE BytesOf(plane, call.bytes)
  /\ call.kernel = "gray" =>
       result = [i \in 1..call.cn * call.n |->
                   IF call.cn = 4 /\ i % 4 = 0 THEN Alpha
                   ELSE (i - 1) \div call.cn + 1]
  /\ call.kernel = "tail" =>
       UNION {{(k - 1) * call.n + i : i \in result[k]} : k \in 1..call.cn}
         = 0..call.cn * call.active - 1

(* The code paths of a colour conversion round and saturate alike, though  *)
(* they shift, narrow and clamp at different places: the image does not    *)
(* depend on the width of its rows or on the processor.                    *)
ColourOnEveryPath ==
  /\ call.kernel = "encode" =>
       \A f \in DOMAIN result : Cardinality(result[f]) = 1
  /\ call.kernel = "decode" =>
       \A c \in 1..3 : \A f \in DOMAIN result[c] :
         Cardinality(result[c][f]) = 1

(* Blocks leave the conversions to YUV with their pixels in order: the     *)
(* even and odd registers are interleaved again, and chroma is that of the *)
(* even pixels, for every vector length.                                   *)
BlocksKeepOrder ==
  call.kernel = "encode_block" =>
    LET n == call.n
    IN  result = [luma |-> {Hi(Named(n))},
                  chroma |-> {[i \in 1..n |-> <<2 * i - 1, "hi">>]},
                  even |-> {[i \in 1..n |-> 2 * i - 1]},
                  odd |-> {[i \in 1..n |-> 2 * i]}]

(* The lookup that takes RGBA pixels apart "and widen[s] it to 16bits"     *)
(* (rgb_to_yuv444_sc.h:157) takes the right sample, and leaves nothing in  *)
(* the high byte of a lane, with one exception: the two registers of       *)
(* vectors of 128 bytes have an element 255, which is the index of the     *)
(* high bytes, and only vectors of 256 bytes take the other path (:211).   *)
WidensSamples ==
  call.kernel = "deinterleave" =>
    \A c \in 1..3 :
      /\ [i \in DOMAIN result[c] |-> result[c][i][1]] = Plane(c - 1, call.n)
      /\ \A i \in DOMAIN result[c] : result[c][i][2] = 0 <=> call.n # 128

(* The pixels of a 4:2:0 row that are not given the chroma of their pair:  *)
(* in a semi-planar row of odd width, those of the last vector of NEON,    *)
(* which is moved back to an odd column where u and v change places, and   *)
(* on SVE2 the last one, whose v lies behind the predicate of the luma.    *)
ChromaMissed(path, format, width) ==
  IF format = "planar" \/ width % 2 = 0 THEN {}
  ELSE IF path = "sc" THEN {width - 1}
  ELSE IF width > 16 THEN width - 16..width - 1
  ELSE {}

(* A pixel is converted with the chroma of its own pair of columns, at     *)
(* every position of a row of every width, in vectors and in the tail, up  *)
(* to the pixels of ChromaMissed: kleidicv.h:1526 gives the chroma rows    *)
(* (width + 1)/2 pairs.                                                    *)
RowUsesItsChroma ==
  /\ call.kernel = "row" =>
       \A path \in DOMAIN result : \A row \in result[path] :
         {p \in 0..call.width - 1 :
            \E c \in 1..3 :
              row[c][p] # yuv420x_to_rgb_scalar(c, LumaAt(p), UAt(p \div 2),
                                                VAt(p \div 2))}
           = ChromaMissed(path, call.format, call.width)
  /\ call.kernel = "block422" =>
       result = [i \in 1..2 * call.n |->
                   yuv420x_to_rgb_scalar(call.c, LumaAt(i - 1),
                     UAt((i - 1) \div 2), VAt((i - 1) \div 2))]

(* What is left of a row of pairs: each pixel that is stored comes from a  *)
(* pair that was loaded, and no pair is left out.                          *)
PairsLoadedAndStored ==
  call.kernel = "remaining422" =>
    /\ result[1].loaded = 0..call.length \div 2 - 1
    /\ result[1].stored = 0..call.length - 1
    /\ result[2].loaded = 0..call.length - 1
    /\ result[2].stored = 0..call.length \div 2 - 1

(* A row of chroma is stored completely and each sample is that of the     *)
(* even pixel of its pair, although a remaining vector of SVE2 stores more *)
(* lanes than it has computed and the next one has to replace them.        *)
ChromaStoredOnce ==
  call.kernel = "encode_row" =>
    result = {[c \in 0..Pairs(call.width) - 1 |-> <<2 * c, "hi">>]}

(* A stripe of a planar image reads the chroma rows that the call for the  *)
(* whole image reads, whatever pair of rows it begins with; and where      *)
(* width and height are even those are the rows the conversion to YUV      *)
(* stores, which rounds the halves of odd ones up and not down.            *)
StripesShareChromaRows ==
  call.kernel = "planar_rows" =>
    \A k \in call.begin..StripeCount(call.height) - 1 :
      /\ result.stripe.u[k] = result.whole.u[k]
      /\ result.stripe.v[k] = result.whole.v[k]
      /\ call.width % 2 = 0 /\ call.height % 2 = 0 =>
           /\ result.stripe.u[k] = result.encoded.u[k]
           /\ result.stripe.v[k] = result.encoded.v[k]

(* The U and the V plane of a planar image are "stored sequentially in     *)
(* memory", with (height / 2) rows of (width / 2) samples each             *)
(* (kleidicv.h:1514): V continues where U ends, two chroma rows to one row *)
(* of the image.  At heights of 3 modulo 4 every other row of V is not     *)
(* there: V begins with the second half of a row of the image and goes on  *)
(* as from a first half, so that it misses the padding between them.       *)
PlanesSequential ==
  call.kernel = "planar_rows" =>
    \A k \in call.begin..call.height \div 2 - 1 :
      LET at(row) == (row \div 2) * call.stride
                       + (row % 2) * (call.width \div 2)
      IN  /\ result.stripe.u[k] = at(k)
          /\ result.stripe.v[k] =
               at(call.height \div 2 + k)
                 - (IF call.height % 4 = 3 /\ k % 2 = 1
                      THEN call.stride - 2 * (call.width \div 2) ELSE 0)

(* However the pairs of rows of an image are divided, the stripes cover    *)
(* every row once; the last pair of an odd height has one row.             *)
StripesCoverRows ==
  call.kernel = "stripes" =>
    /\ result[1] \cup result[2] = 0..call.height - 1
    /\ result[1] \cap result[2] = {}
=============================================================================
